---- MODULE Spec2Model ----
(***************************************************************************)
(* Model of the search-and-extraction pipeline of web-busc-AI-2.0:         *)
(*   - RateLimiter.execute and retry        (src/src/utils/helpers.js)     *)
(*   - CacheManager get/set/clear           (src/unnamed/part_004)         *)
(*   - SearchEngine.processQuery            (src/unnamed/part_003)         *)
(*   - SearchService.removeDuplicates       (src/src/services/search.js)   *)
(*   - SearchService.generateSearchQueries, search, processResults         *)
(*   - WebScraper.validateUrls, scrapeUrls, scrapeUrl and extraction       *)
(* Time is a discrete clock `now`; one tick stands for one unit of the     *)
(* interval / TTL being modelled.                                          *)
(***************************************************************************)
EXTENDS Integers, Sequences, FiniteSets, TLC

VARIABLES
    now,          \* Date.now()
    \* ---- RateLimiter (helpers.js:3-25)
    lastRequest,  \* this.lastRequest
    queue,        \* p-limit's queue of operations not yet started
    opState,      \* per operation: idle / queued / waiting / inflight / settled
    wakeAt,       \* per operation: the time its setTimeout is due
    dispatchLog,  \* the times at which fn() was invoked, in order
    \* ---- retry (helpers.js:29-38)
    rPc, rAttempts, rDelay, rI, rCalls, rSleeps, rResult,
    \* ---- CacheManager / NodeCache (part_004)
    cData,        \* NodeCache.data: key -> wrapped entry or NoEntry
    cLast,        \* the CacheManager call made at the current instant, and what it returned
    cSetAt,       \* key -> time of the latest set() that stored an entry for it, or NoTime
    \* ---- SearchEngine.processQuery (part_003)
    pc, pVariant, pQuery, pTrace, pSearchN, pSnippetN, pValidN, pScrapedN, pSummaries, pBuilt, pFailed, pOut,
    \* ---- SearchService.removeDuplicates (search.js:75-96)
    ddPc, ddInput, ddOutput,
    \* ---- SearchService.generateSearchQueries / search / processResults (search.js:14-147)
    sPc,          \* position in generateSearchQueries -> search
    sAnalysis,    \* the analysis handed to generateSearchQueries
    sKeywords,    \* the keywords handed to generateSearchQueries
    sQueries,     \* the query strings generateSearchQueries returned
    sI,           \* index of the query the loop of search() is at
    sAll,         \* allResults
    sOutcomes,    \* what executeSearch did for each query so far, in order
    sOut,         \* what search() returned
    \* ---- WebScraper.validateUrls (search.js:772-840)
    vPc,          \* ready / probing / done
    vUrls,        \* the candidate URLs
    vProbe,       \* per candidate: not probed, HEAD request in flight, or how it settled
    vOut,         \* validUrls as returned
    vHeads,       \* the URLs HEAD requests were sent to, in order
    \* ---- WebScraper.scrapeUrls (search.js:179-250)
    scPc,         \* idle / validating / loop / done / raised
    scUrls,       \* the argument of scrapeUrls
    scValid,      \* validUrls
    scI,          \* index of the page the loop is at
    scResults,    \* results
    scAttempts,   \* the pages the loop has handled, and how
    scCache,      \* this.cache
    \* ---- WebScraper.scrapeUrl and extraction (search.js:261-483)
    xPc,          \* ready / fetching / streaming / done
    xPage,        \* the page behind the URL
    xVia,         \* which fetch delivered the body: normal or streaming
    xOut,         \* what scrapeUrl settled with: a content record or an error
    xAttempt,     \* the index i of the loop of retry
    xRequests,    \* the number of GET requests sent for the URL
    xTransient,   \* how many of them failed with a timeout
    xParsed,      \* TRUE once extractContent has been invoked on a body
    xSettledBy,   \* the handler whose resolve or reject settled scrapeUrl
    xStream       \* scrapeUrlWithStreaming: stream state, htmlContent.length, totalSize, timer

limiterVars == <<lastRequest, queue, opState, wakeAt, dispatchLog>>
retryVars   == <<rPc, rAttempts, rDelay, rI, rCalls, rSleeps, rResult>>
cacheVars   == <<cData, cLast, cSetAt>>
engineVars  == <<pc, pVariant, pQuery, pTrace, pSearchN, pSnippetN, pValidN, pScrapedN, pSummaries, pBuilt, pFailed, pOut>>
dedupVars   == <<ddPc, ddInput, ddOutput>>
searchVars  == <<sPc, sAnalysis, sKeywords, sQueries, sI, sAll, sOutcomes, sOut>>
\* the components added after removeDuplicates
validateVars == <<vPc, vUrls, vProbe, vOut, vHeads>>
scrapeVars  == <<scPc, scUrls, scValid, scI, scResults, scAttempts, scCache>>
extractVars == <<xPc, xPage, xVia, xOut, xAttempt, xRequests, xTransient, xParsed, xSettledBy, xStream>>
laterVars   == <<searchVars, validateVars, scrapeVars, extractVars>>
vars == <<now, limiterVars, retryVars, cacheVars, engineVars, dedupVars, laterVars>>

\* ------------------------------------------------------------------ bounds
MaxTime == 6
NumOps == 3

Min(a, b) == IF a < b THEN a ELSE b

(***************************************************************************)
(* RateLimiter                                                             *)
(***************************************************************************)
\* constructor arguments: new RateLimiter(maxConcurrent, interval)
MaxConcurrent == 2
Interval == 2

Ops == 1..NumOps

ActiveCount == Cardinality({o \in Ops : opState[o] \in {"waiting", "inflight"}})

\* p-limit starts a queued function only while activeCount < concurrency
CanStartNoLimit == TRUE
CanStart == ActiveCount < MaxConcurrent

\* helpers.js:13
TimeSinceLastRequest == now - lastRequest

LimiterInit ==
    /\ lastRequest = 0
    /\ queue = <<>>
    /\ opState = [o \in Ops |-> "idle"]
    /\ wakeAt = [o \in Ops |-> 0]
    /\ dispatchLog = <<>>

\* execute(fn): this.limit(...) enqueues the wrapped function
Execute(o) ==
    /\ opState[o] = "idle"
    /\ opState' = [opState EXCEPT ![o] = "queued"]
    /\ queue' = Append(queue, o)
    /\ UNCHANGED <<now, lastRequest, wakeAt, dispatchLog>>

\* p-limit dequeues the head; the wrapped function runs up to its first await:
\* either it arms the timer (lines 15-19) or it goes straight to lines 21-22.
Start ==
    /\ queue # <<>>
    /\ CanStart
    /\ LET o == Head(queue) IN
        /\ queue' = Tail(queue)
        /\ IF TimeSinceLastRequest < Interval
           THEN /\ opState' = [opState EXCEPT ![o] = "waiting"]
                /\ wakeAt' = [wakeAt EXCEPT ![o] = now + (Interval - TimeSinceLastRequest)]
                /\ UNCHANGED <<lastRequest, dispatchLog>>
           ELSE /\ opState' = [opState EXCEPT ![o] = "inflight"]
                /\ lastRequest' = now
                /\ dispatchLog' = Append(dispatchLog, now)
                /\ UNCHANGED wakeAt
    /\ UNCHANGED now

\* the timer fires (never early): lines 21-22
Wake(o) ==
    /\ opState[o] = "waiting"
    /\ now >= wakeAt[o]
    /\ opState' = [opState EXCEPT ![o] = "inflight"]
    /\ lastRequest' = now
    /\ dispatchLog' = Append(dispatchLog, now)
    /\ UNCHANGED <<now, queue, wakeAt>>

\* the promise returned by fn() settles; p-limit frees the slot
Settle(o) ==
    /\ opState[o] = "inflight"
    /\ opState' = [opState EXCEPT ![o] = "settled"]
    /\ UNCHANGED <<now, lastRequest, queue, wakeAt, dispatchLog>>

Tick ==
    /\ now < MaxTime
    /\ now' = now + 1

LimiterNext ==
    \/ \E o \in Ops : Execute(o) /\ UNCHANGED <<retryVars, cacheVars, engineVars, dedupVars, laterVars>>
    \/ Start /\ UNCHANGED <<retryVars, cacheVars, engineVars, dedupVars, laterVars>>
    \/ \E o \in Ops : Wake(o) /\ UNCHANGED <<retryVars, cacheVars, engineVars, dedupVars, laterVars>>
    \/ \E o \in Ops : Settle(o) /\ UNCHANGED <<retryVars, cacheVars, engineVars, dedupVars, laterVars>>
    \/ Tick /\ UNCHANGED <<limiterVars, retryVars, cacheVars, engineVars, dedupVars, laterVars>>

(***************************************************************************)
(* retry(fn, attempts, delay)                                              *)
(***************************************************************************)
MaxAttempts == 3
MaxBaseDelay == 2

\* what one invocation of fn can do: resolve with a value or reject with an error
Values == {"v1", "v2"}
Errors == {"e1", "e2"}
Outcomes == [ok : {TRUE}, val : Values] \cup [ok : {FALSE}, val : Errors]

\* the value an async function resolves with when its body falls off the end
Undefined == "undefined"

\* helpers.js:34
IsLastAttemptOffByOne(i, attempts) == i = attempts
IsLastAttempt(i, attempts) == i = attempts - 1

\* helpers.js:35
BackoffDelay(delay, i) == delay * 2^i

RetryParked ==
    /\ rPc = "parked"
    /\ rAttempts = 0
    /\ rDelay = 0
    /\ rI = 0
    /\ rCalls = <<>>
    /\ rSleeps = <<>>
    /\ rResult = Undefined

\* the call retry(fn, attempts, delay); attempts may be 0 or negative
RetryInit ==
    /\ rPc = "loop"
    /\ rAttempts \in -1..MaxAttempts
    /\ rDelay \in 1..MaxBaseDelay
    /\ rI = 0
    /\ rCalls = <<>>
    /\ rSleeps = <<>>
    /\ rResult = Undefined

\* helpers.js:30: the loop condition i < attempts; falling off the end resolves undefined
RetryLoop ==
    /\ rPc = "loop"
    /\ IF rI < rAttempts
       THEN rPc' = "call" /\ UNCHANGED rResult
       ELSE rPc' = "returned" /\ rResult' = Undefined
    /\ UNCHANGED <<rAttempts, rDelay, rI, rCalls, rSleeps>>

\* helpers.js:31-36: one invocation of fn and what follows it
RetryCall(out) ==
    /\ rPc = "call"
    /\ rCalls' = Append(rCalls, out)
    /\ IF out.ok
       THEN /\ rPc' = "returned"
            /\ rResult' = out.val
            /\ UNCHANGED <<rI, rSleeps>>
       ELSE IF IsLastAttempt(rI, rAttempts)
            THEN /\ rPc' = "raised"
                 /\ rResult' = out.val
                 /\ UNCHANGED <<rI, rSleeps>>
            ELSE /\ rPc' = "loop"
                 /\ rSleeps' = Append(rSleeps, BackoffDelay(rDelay, rI))
                 /\ rI' = rI + 1
                 /\ UNCHANGED rResult
    /\ UNCHANGED <<rAttempts, rDelay>>

RetryNext ==
    \/ RetryLoop /\ UNCHANGED <<now, limiterVars, cacheVars, engineVars, dedupVars, laterVars>>
    \/ \E out \in Outcomes : RetryCall(out) /\ UNCHANGED <<now, limiterVars, cacheVars, engineVars, dedupVars, laterVars>>

(***************************************************************************)
(* CacheManager over NodeCache({stdTTL, maxKeys, useClones: false})        *)
(***************************************************************************)
\* CONFIG.cache.maxSize and CONFIG.cache.ttl, scaled down
MaxKeys == 2
StdTTL == 1
MaxCacheTime == StdTTL + 2

\* part_004:9
CACHE_QUERY_STORAGE_LENGTH == 100

\* a query is a string: a sequence of characters
Queries ==
    { <<"a">>, <<" ", "A">>, <<"b">>, <<"c">> }

Lower(c) == CASE c = "A" -> "a" [] c = "B" -> "b" [] OTHER -> c

\* String.prototype.toLowerCase
ToLowerCase(q) == [i \in DOMAIN q |-> Lower(q[i])]

\* String.prototype.trim
RECURSIVE TrimStart(_)
TrimStart(q) ==
    IF q # <<>> /\ Head(q) = " " THEN TrimStart(Tail(q)) ELSE q

RECURSIVE TrimEnd(_)
TrimEnd(q) ==
    IF q # <<>> /\ q[Len(q)] = " " THEN TrimEnd(SubSeq(q, 1, Len(q) - 1)) ELSE q

Trim(q) == TrimStart(TrimEnd(q))

\* String.prototype.substring(0, n)
Substring0(q, n) == SubSeq(q, 1, Min(n, Len(q)))

\* part_004:42-44
NormalizeQueryNoLower(query) == Trim(query)
NormalizeQuery(query) == Trim(ToLowerCase(query))

\* crypto sha256 hex digest: a fixed-length one-way image, injective on the
\* strings of the model (collision resistance)
Sha256(str) == <<"sha256", str>>

\* part_004:34-37
GenerateCacheKey(query) == Sha256(NormalizeQuery(query))

\* what NodeCache.get returns for a missing key, and what CacheManager.get returns
UndefinedValue == [undefined |-> TRUE]
Null == [null |-> TRUE]

\* part_004:23-29: the options given to NodeCache
StdTTLOption == StdTTL
MaxKeysOption == MaxKeys

\* NodeCache._wrap: the expiry time of a value stored now (0: never)
WrapNoExpiry(value) == [t |-> 0, v |-> value]
Wrap(value) ==
    [t |-> IF StdTTLOption = 0 THEN 0 ELSE now + StdTTLOption, v |-> value]

\* NodeCache._check: an entry past its expiry time
Expired(w) == w.t # 0 /\ w.t < now

Without(data, key) == [k \in DOMAIN data \ {key} |-> data[k]]

\* NodeCache.get(key): the value, and the data afterwards (an expired entry is deleted)
NodeCacheGetValue(key) ==
    IF key \in DOMAIN cData /\ ~Expired(cData[key]) THEN cData[key].v ELSE UndefinedValue

NodeCacheGetData(key) ==
    IF key \in DOMAIN cData /\ Expired(cData[key]) THEN Without(cData, key) ELSE cData

\* NodeCache.set(key, value): throws ECACHEFULL when stats.keys >= maxKeys,
\* before it looks whether the key exists
NodeCacheSetThrows ==
    MaxKeysOption > -1 /\ Cardinality(DOMAIN cData) >= MaxKeysOption

NodeCacheSetData(key, value) == (key :> Wrap(value)) @@ cData

\* part_004:80-86
CreateCacheEntry(data, query) ==
    [f \in DOMAIN data \cup {"timestamp", "query"} |->
        IF f = "timestamp" THEN now
        ELSE IF f = "query" THEN Substring0(query, CACHE_QUERY_STORAGE_LENGTH)
        ELSE data[f]]

\* part_004:49-60
CacheGetResult(query) ==
    LET cachedResult == NodeCacheGetValue(GenerateCacheKey(query))
    IN  IF cachedResult # UndefinedValue THEN cachedResult ELSE Null

NoCall == [op |-> "none", q |-> <<>>, v |-> Null, ret |-> Null, status |-> "ok"]
NoTime == 0 - 1
Keys == {GenerateCacheKey(q) : q \in Queries}

CacheInit ==
    /\ cData = <<>>
    /\ cLast = NoCall
    /\ cSetAt = [k \in Keys |-> NoTime]

\* CacheManager.get(query)
CacheGet(query) ==
    /\ cData' = NodeCacheGetData(GenerateCacheKey(query))
    /\ cLast' = [op |-> "get", q |-> query, v |-> Null, ret |-> CacheGetResult(query),
                 status |-> "ok"]
    /\ UNCHANGED cSetAt

\* CacheManager.set(query, data)
CacheSet(query, data) ==
    /\ IF NodeCacheSetThrows
       THEN /\ cLast' = [op |-> "set", q |-> query, v |-> data, ret |-> Null,
                         status |-> "threw"]
            /\ UNCHANGED <<cData, cSetAt>>
       ELSE /\ cLast' = [op |-> "set", q |-> query, v |-> data, ret |-> Null,
                         status |-> "ok"]
            /\ cData' = NodeCacheSetData(GenerateCacheKey(query), CreateCacheEntry(data, query))
            /\ cSetAt' = [cSetAt EXCEPT ![GenerateCacheKey(query)] = now]

\* CacheManager.clear(): flushAll
CacheClear ==
    /\ cData' = <<>>
    /\ cLast' = [op |-> "clear", q |-> <<>>, v |-> Null, ret |-> Null, status |-> "ok"]
    /\ UNCHANGED cSetAt

\* NodeCache's periodic _checkData: every expired entry is deleted
CheckData ==
    /\ \E k \in DOMAIN cData : Expired(cData[k])
    /\ cData' = [k \in {x \in DOMAIN cData : ~Expired(cData[x])} |-> cData[k]]
    /\ UNCHANGED <<cLast, cSetAt>>

\* time passes: no call has been made at the new instant yet
CacheTick ==
    /\ now < MaxCacheTime
    /\ now' = now + 1
    /\ cLast' = NoCall
    /\ UNCHANGED <<cData, cSetAt>>

\* the results the engine hands to set()
CacheValues ==
    { [response |-> <<"answer", n>>, sources |-> n, confidence |-> 5, metadata |-> "m"] : n \in 1..2 }

CacheNext ==
    \/ \E q \in Queries : CacheGet(q) /\ UNCHANGED <<now, limiterVars, retryVars, engineVars, dedupVars, laterVars>>
    \/ \E q \in Queries, v \in CacheValues : CacheSet(q, v) /\ UNCHANGED <<now, limiterVars, retryVars, engineVars, dedupVars, laterVars>>
    \/ CacheClear /\ UNCHANGED <<now, limiterVars, retryVars, engineVars, dedupVars, laterVars>>
    \/ CheckData /\ UNCHANGED <<now, limiterVars, retryVars, engineVars, dedupVars, laterVars>>
    \/ CacheTick /\ UNCHANGED <<limiterVars, retryVars, engineVars, dedupVars, laterVars>>

(***************************************************************************)
(* SearchEngine.processQuery                                               *)
(***************************************************************************)
MaxResults == 2

\* the queries handed to processQuery (strings: both callers check the type)
EngineQueries == { <<"a">>, <<"A">>, <<"b">>, <<"c">> }

\* part_003 holds the engine twice: as first written (10-129) and refactored (175-216)
Variants == {"original", "refactored"}

NoOutcome == [kind |-> "none", result |-> Null]

\* part_003:159
NO_SEARCH_RESULTS_ERROR == "No search results found"

\* part_003:116-127 / 441-452: the object the catch block returns
ErrorResult(query, message) ==
    [response |-> <<"Desculpe", query, message>>,
     sections |-> <<>>,
     sources |-> <<>>,
     confidence |-> 0,
     metadata |-> [query |-> query, error |-> message]]

\* part_003:113-128 / 213-215: the catch block of processQuery
RethrowError(query, message) == [kind |-> "raised", result |-> Null]
HandleQueryProcessingError(query, message) ==
    [kind |-> "returned", result |-> ErrorResult(query, message)]

\* part_003:38-40 / 264-268
NeverEmpty(n) == FALSE
IsEmptySearch(n) == n = 0

\* a result object that carries no confidence
BuildResultObjectZeroConfidence(query, confidence, nSources) ==
    [response |-> <<"answer", query>>,
     sections |-> <<"sections">>,
     sources |-> [i \in 1..nSources |-> i],
     confidence |-> 0,
     metadata |-> [query |-> query]]

\* ai.js:88-122 fallbackResponse: confidence 3.0 when a summary is a snippet, else 5.0
\* part_003:88-105 / 379-385: sources are rebuilt from the content records
BuildResultObject(query, confidence, nSources) ==
    [response |-> <<"answer", query>>,
     sections |-> <<"sections">>,
     sources |-> [i \in 1..nSources |-> i],
     confidence |-> confidence,
     metadata |-> [query |-> query]]

EngineInit ==
    /\ pc = "idle"
    /\ pVariant \in Variants
    /\ pQuery = <<>>
    /\ pTrace = <<>>
    /\ pSearchN = 0
    /\ pSnippetN = 0
    /\ pValidN = 0
    /\ pScrapedN = 0
    /\ pSummaries = 0
    /\ pBuilt = Null
    /\ pFailed = "none"
    /\ pOut = NoOutcome

EngineParked ==
    /\ pc = "parked"
    /\ pVariant = "original"
    /\ pQuery = <<>>
    /\ pTrace = <<>>
    /\ pSearchN = 0
    /\ pSnippetN = 0
    /\ pValidN = 0
    /\ pScrapedN = 0
    /\ pSummaries = 0
    /\ pBuilt = Null
    /\ pFailed = "none"
    /\ pOut = NoOutcome

\* a stage threw: control goes to the catch block
Throw(stage, message) ==
    /\ pc' = "done"
    /\ pTrace' = Append(pTrace, stage)
    /\ pFailed' = stage
    /\ pOut' = HandleQueryProcessingError(pQuery, message)

\* a stage completed and validation is left out
ProceedSkippingValidation(stage, next) ==
    /\ pc' = IF next = "validate" THEN "scrape" ELSE next
    /\ pTrace' = Append(pTrace, stage)
    /\ UNCHANGED <<pFailed, pOut>>

\* a stage completed
Proceed(stage, next) ==
    /\ pc' = next
    /\ pTrace' = Append(pTrace, stage)
    /\ UNCHANGED <<pFailed, pOut>>

\* processQuery(query) is called
PQCall(query) ==
    /\ pc = "idle"
    /\ pc' = "cacheCheck"
    /\ pQuery' = query
    /\ UNCHANGED <<now, cacheVars, pVariant, pTrace, pSearchN, pSnippetN, pValidN, pScrapedN, pSummaries, pBuilt, pFailed, pOut>>

\* part_003:15-18: cache.get(query); a hit is returned as it is
PQCacheCheck ==
    /\ pc = "cacheCheck"
    /\ CacheGet(pQuery)
    /\ pTrace' = Append(pTrace, "cacheGet")
    /\ IF CacheGetResult(pQuery) # Null
       THEN /\ pc' = "done"
            /\ pOut' = [kind |-> "returned", result |-> CacheGetResult(pQuery)]
       ELSE /\ pc' = "analyze"
            /\ UNCHANGED pOut
    /\ UNCHANGED <<now, pVariant, pQuery, pSearchN, pSnippetN, pValidN, pScrapedN, pSummaries, pBuilt, pFailed>>

\* part_003:23: AIService.analyzeQuery
PQAnalyze ==
    /\ pc = "analyze"
    /\ \/ Proceed("analyze", "keywords")
       \/ Throw("analyze", "analysis failed")
    /\ UNCHANGED <<now, cacheVars, pVariant, pQuery, pSearchN, pSnippetN, pValidN, pScrapedN, pSummaries, pBuilt>>

\* part_003:27: AIService.generateKeywords
PQKeywords ==
    /\ pc = "keywords"
    /\ \/ Proceed("keywords", "buildQueries")
       \/ Throw("keywords", "keywords failed")
    /\ UNCHANGED <<now, cacheVars, pVariant, pQuery, pSearchN, pSnippetN, pValidN, pScrapedN, pSummaries, pBuilt>>

\* part_003:31: SearchService.generateSearchQueries
PQBuildQueries ==
    /\ pc = "buildQueries"
    /\ Proceed("buildQueries", "search")
    /\ UNCHANGED <<now, cacheVars, pVariant, pQuery, pSearchN, pSnippetN, pValidN, pScrapedN, pSummaries, pBuilt>>

\* part_003:35-40: SearchService.search, then the empty-result check
PQSearch ==
    /\ pc = "search"
    /\ \/ \E n \in 0..MaxResults, k \in 0..MaxResults :
            /\ k <= n
            /\ pSearchN' = n
            /\ pSnippetN' = k
            /\ IF IsEmptySearch(n)
               THEN Throw("search", NO_SEARCH_RESULTS_ERROR)
               ELSE Proceed("search", "validate")
       \/ /\ Throw("search", "search failed")
          /\ pSearchN' = -1
          /\ UNCHANGED pSnippetN
    /\ UNCHANGED <<now, cacheVars, pVariant, pQuery, pValidN, pScrapedN, pSummaries, pBuilt>>

\* part_003:43-44: ScraperService.validateUrls
PQValidate ==
    /\ pc = "validate"
    /\ \/ \E n \in 0..pSearchN : pValidN' = n /\ Proceed("validate", "scrape")
       \/ Throw("validate", "validation failed") /\ UNCHANGED pValidN
    /\ UNCHANGED <<now, cacheVars, pVariant, pQuery, pSearchN, pSnippetN, pScrapedN, pSummaries, pBuilt>>

\* part_003:45-66: ScraperService.scrapeUrls; with nothing scraped the search
\* results themselves become the content
PQScrape ==
    /\ pc = "scrape"
    /\ \/ \E n \in 0..pValidN : pScrapedN' = n /\ Proceed("scrape", "summarize")
       \/ Throw("scrape", "scraping failed") /\ UNCHANGED pScrapedN
    /\ UNCHANGED <<now, cacheVars, pVariant, pQuery, pSearchN, pSnippetN, pValidN, pSummaries, pBuilt>>

\* the content records handed to summarizing: scraped pages, else snippets
ContentToAnalyzeN == IF pScrapedN = 0 THEN pSearchN ELSE pScrapedN

\* part_003:69-81: a failing summary is logged and left out
PQSummarize ==
    /\ pc = "summarize"
    /\ \E n \in 0..ContentToAnalyzeN : pSummaries' = n
    /\ Proceed("summarize", "synthesize")
    /\ UNCHANGED <<now, cacheVars, pVariant, pQuery, pSearchN, pSnippetN, pValidN, pScrapedN, pBuilt>>

\* the number of source entries of the result: the original maps scrapedContent,
\* the refactored engine maps contentToAnalyze
SourcesN == IF pVariant = "original" THEN pScrapedN ELSE ContentToAnalyzeN

\* ai.js:56-73, 101, 118: a summary of a text under 50 characters is marked
\* isSnippet, and the confidence is 3.0 when some summary is, else 5.0. Scraped
\* texts have 50 characters or more; an absent snippet gives the empty text.
Confidences ==
    IF pScrapedN > 0 \/ pSummaries = 0 THEN {5}
    ELSE IF pSnippetN = 0 THEN {3}
    ELSE {3, 5}

\* part_003:86-105: AIService.synthesizeResponse and the result object
PQSynthesize ==
    /\ pc = "synthesize"
    /\ \/ /\ \E conf \in Confidences :
                pBuilt' = BuildResultObject(pQuery, conf, SourcesN)
          /\ Proceed("synthesize", "cacheWrite")
       \/ Throw("synthesize", "synthesis failed") /\ UNCHANGED pBuilt
    /\ UNCHANGED <<now, cacheVars, pVariant, pQuery, pSearchN, pSnippetN, pValidN, pScrapedN, pSummaries>>

\* part_003:108-111: cache.set(query, result) inside the try, then return result
PQCacheWrite ==
    /\ pc = "cacheWrite"
    /\ CacheSet(pQuery, pBuilt)
    /\ IF NodeCacheSetThrows
       THEN Throw("cacheSet", "Cache max keys amount exceeded")
       ELSE /\ pc' = "done"
            /\ pTrace' = Append(pTrace, "cacheSet")
            /\ pOut' = [kind |-> "returned", result |-> pBuilt]
            /\ UNCHANGED pFailed
    /\ UNCHANGED <<now, pVariant, pQuery, pSearchN, pSnippetN, pValidN, pScrapedN, pSummaries, pBuilt>>

\* the caller takes the result; the engine is ready for the next query
PQReturn ==
    /\ pc = "done"
    /\ pc' = "idle"
    /\ pQuery' = <<>>
    /\ pTrace' = <<>>
    /\ pSearchN' = 0
    /\ pSnippetN' = 0
    /\ pValidN' = 0
    /\ pScrapedN' = 0
    /\ pSummaries' = 0
    /\ pBuilt' = Null
    /\ pFailed' = "none"
    /\ pOut' = NoOutcome
    /\ UNCHANGED <<now, cacheVars, pVariant>>

EngineNext ==
    \/ \E q \in EngineQueries : PQCall(q) /\ UNCHANGED <<limiterVars, retryVars, dedupVars, laterVars>>
    \/ PQCacheCheck /\ UNCHANGED <<limiterVars, retryVars, dedupVars, laterVars>>
    \/ PQAnalyze /\ UNCHANGED <<limiterVars, retryVars, dedupVars, laterVars>>
    \/ PQKeywords /\ UNCHANGED <<limiterVars, retryVars, dedupVars, laterVars>>
    \/ PQBuildQueries /\ UNCHANGED <<limiterVars, retryVars, dedupVars, laterVars>>
    \/ PQSearch /\ UNCHANGED <<limiterVars, retryVars, dedupVars, laterVars>>
    \/ PQValidate /\ UNCHANGED <<limiterVars, retryVars, dedupVars, laterVars>>
    \/ PQScrape /\ UNCHANGED <<limiterVars, retryVars, dedupVars, laterVars>>
    \/ PQSummarize /\ UNCHANGED <<limiterVars, retryVars, dedupVars, laterVars>>
    \/ PQSynthesize /\ UNCHANGED <<limiterVars, retryVars, dedupVars, laterVars>>
    \/ PQCacheWrite /\ UNCHANGED <<limiterVars, retryVars, dedupVars, laterVars>>
    \/ PQReturn /\ UNCHANGED <<limiterVars, retryVars, dedupVars, laterVars>>

(***************************************************************************)
(* SearchService.removeDuplicates                                          *)
(***************************************************************************)
MaxDedupLen == 3
\* CONFIG.filtering.maxUrlsPerDomain
MaxUrlsPerDomain == 2

Link(host, path) == [host |-> host, path |-> path]

\* helpers.js:56-62: new URL(url).hostname (the filter step has dropped unparsable links)
ExtractDomain(link) == link.host

LongTitle(n) == [i \in 1..n |-> "a"]

\* search results as the filter step hands them on: {link, title}
DedupResults ==
    { [link |-> Link("d1", "p1"), title |-> <<"a", "b">>],
      [link |-> Link("d1", "p2"), title |-> <<"a", " ", "b">>],
      [link |-> Link("d1", "p1"), title |-> <<"c", "d">>],
      [link |-> Link("d1", "p2"), title |-> <<"c", "d">>],
      [link |-> Link("d1", "p3"), title |-> <<"x">>],
      [link |-> Link("d1", "p4"), title |-> <<"y">>],
      [link |-> Link("d2", "p1"), title |-> LongTitle(11)],
      [link |-> Link("d2", "p2"), title |-> LongTitle(12)],
      [link |-> Link("d2", "p1"), title |-> <<"a", "b">>] }

\* first.replace(/\s+/g, '')
StripWhitespace(str) == SelectSeq(str, LAMBDA c : c # " ")

Bigrams(str) == [i \in 1..(Len(str) - 1) |-> <<str[i], str[i + 1]>>]

CountIn(seq, x) == Cardinality({i \in DOMAIN seq : seq[i] = x})

\* string-similarity compareTwoStrings: the bigrams of `second` that find a
\* not yet used equal bigram of `first`
RECURSIVE IntersectionSize(_, _, _, _)
IntersectionSize(firstBigrams, secondBigrams, i, used) ==
    IF i > Len(secondBigrams) THEN 0
    ELSE LET bigram == secondBigrams[i]
             left == CountIn(firstBigrams, bigram) - CountIn(used, bigram)
         IN  IF left > 0
             THEN 1 + IntersectionSize(firstBigrams, secondBigrams, i + 1, Append(used, bigram))
             ELSE IntersectionSize(firstBigrams, secondBigrams, i + 1, used)

\* compareTwoStrings(first, second) > 0.9, where the value is
\* 1 for equal strings, 0 when either has fewer than 2 characters, else
\* 2 * intersection / (first.length + second.length - 2)
SimilarityExceedsThreshold(first, second) ==
    LET f == StripWhitespace(first)
        g == StripWhitespace(second)
    IN  IF f = g THEN TRUE
        ELSE IF Len(f) < 2 \/ Len(g) < 2 THEN FALSE
        ELSE 10 * 2 * IntersectionSize(Bigrams(f), Bigrams(g), 1, <<>>) > 9 * (Len(f) + Len(g) - 2)

DomainCount(unique, domain) ==
    Cardinality({i \in DOMAIN unique : ExtractDomain(unique[i].link) = domain})

\* search.js:83
DomainCapReachedOffByOne(unique, domain) == DomainCount(unique, domain) > MaxUrlsPerDomain
DomainCapReached(unique, domain) == DomainCount(unique, domain) >= MaxUrlsPerDomain

\* search.js:85-87
IsDuplicate(unique, result) ==
    \E i \in DOMAIN unique : SimilarityExceedsThreshold(result.title, unique[i].title)

\* search.js:79-93: the loop, from result i on
RECURSIVE RemoveDuplicatesFrom(_, _, _, _)
RemoveDuplicatesFrom(results, i, seen, unique) ==
    IF i > Len(results) THEN unique
    ELSE LET result == results[i] IN
         IF DomainCapReached(unique, ExtractDomain(result.link))
         THEN RemoveDuplicatesFrom(results, i + 1, seen, unique)
         ELSE IF ~IsDuplicate(unique, result) /\ result.link \notin seen
              THEN RemoveDuplicatesFrom(results, i + 1, seen \cup {result.link}, Append(unique, result))
              ELSE RemoveDuplicatesFrom(results, i + 1, seen, unique)

\* search.js:75-96
RemoveDuplicates(results) == RemoveDuplicatesFrom(results, 1, {}, <<>>)

SeqsUpTo(S, n) == UNION {[1..k -> S] : k \in 0..n}

DedupParked ==
    /\ ddPc = "parked"
    /\ ddInput = <<>>
    /\ ddOutput = <<>>

DedupInit ==
    /\ ddPc = "ready"
    /\ ddInput \in SeqsUpTo(DedupResults, MaxDedupLen)
    /\ ddOutput = <<>>

DedupRun ==
    /\ ddPc = "ready"
    /\ ddOutput' = RemoveDuplicates(ddInput)
    /\ ddPc' = "done"
    /\ UNCHANGED ddInput

DedupNext ==
    DedupRun /\ UNCHANGED <<now, limiterVars, retryVars, cacheVars, engineVars, laterVars>>

(***************************************************************************)
(* SearchService: generateSearchQueries, search, processResults            *)
(* (src/src/services/search.js:14-147).  Strings are sequences of          *)
(* characters.                                                             *)
(***************************************************************************)
\* CONFIG.system.maxPagesToAnalyze
MaxPagesToAnalyze == 2

StartsWith(str, prefix) ==
    Len(str) >= Len(prefix) /\ SubSeq(str, 1, Len(prefix)) = prefix

EndsWith(str, suffix) ==
    Len(str) >= Len(suffix) /\ SubSeq(str, Len(str) - Len(suffix) + 1, Len(str)) = suffix

Includes(str, part) ==
    \E i \in 1..(Len(str) - Len(part) + 1) : SubSeq(str, i, i + Len(part) - 1) = part

\* Array.prototype.slice(0, n)
Slice(seq, n) == SubSeq(seq, 1, Min(n, Len(seq)))

\* Array.prototype.join(sep)
RECURSIVE Join(_, _)
Join(list, sep) ==
    IF list = <<>> THEN <<>>
    ELSE IF Len(list) = 1 THEN list[1]
    ELSE list[1] \o sep \o Join(Tail(list), sep)

\* ---- generateSearchQueries (search.js:125-147)
Topics == { <<"s", "o", "l">>, <<"e", " ", "s">> }
Analyses == [mainTopic : Topics, intentType : {"question", "general"}]

\* keywords.primary / keywords.english: absent, an empty list or a list of strings
NoList == [absent |-> TRUE]
KeywordSets ==
    [primary : {NoList, [list |-> <<>>], [list |-> << <<"p">>, <<"q">> >>]},
     english : {NoList, [list |-> <<>>], [list |-> << <<"s", "u", "n">> >>]}]

\* search.js:138: `"${analysis.mainTopic}" respostas`
ExactPhrase(mainTopic) ==
    <<"\"">> \o mainTopic \o <<"\"", " ", "r", "e", "s", "p", "o", "s", "t", "a", "s">>

\* search.js:146: queries.slice(0, 4)
QueryCapThree(queries) == Slice(queries, 3)
QueryCap(queries) == Slice(queries, 4)

GenerateSearchQueries(analysis, keywords) ==
    LET main == << analysis.mainTopic >>
        primary == IF keywords.primary # NoList
                   THEN << Join(keywords.primary.list, <<" ">>) >> ELSE <<>>
        specific == IF analysis.intentType = "question"
                    THEN << ExactPhrase(analysis.mainTopic) >> ELSE <<>>
        english == IF keywords.english # NoList /\ Len(keywords.english.list) > 0
                   THEN << Join(keywords.english.list, <<" ">>) >> ELSE <<>>
    IN  QueryCap(main \o primary \o specific \o english)

\* ---- the results the search API returns: {title, link, snippet}
Url(scheme, host, path) == [scheme |-> scheme, host |-> host, path |-> path]

\* the string result.link
LinkString(link) == link.scheme \o <<":", "/", "/">> \o link.host \o link.path

\* a link `new URL` rejects: extractDomain returns null
NoDomain == <<>>
BadUrl == Url(<<>>, NoDomain, <<"x">>)

Https == <<"h", "t", "t", "p", "s">>
Http == <<"h", "t", "t", "p">>
Ftp == <<"f", "t", "p">>
ExampleEdu == <<"e", "x", "a", "m", "p", "l", "e", ".", "e", "d", "u">>
WikiOrg == <<"w", "i", "k", "i", ".", "o", "r", "g">>
WikiEdu == <<"w", "i", "k", "i", ".", "e", "d", "u">>
SiteCom == <<"s", "i", "t", "e", ".", "c", "o", "m">>
AgencyGov == <<"a", ".", "g", "o", "v">>
BadCom == <<"b", "a", "d", ".", "c", "o", "m">>
PayCom == <<"p", "a", "y", ".", "c", "o", "m">>
PdfPath == <<"/", "a", ".", "p", "d", "f">>
PagePath == <<"/", "a">>

\* CONFIG.filtering.excludeDomains / paywallDomains
ExcludedDomains == {BadCom}
PaywallDomains == {PayCom}

NoSnippet == [absent |-> TRUE]
Snippet(n) == [text |-> [i \in 1..n |-> "s"]]

REdu == [link |-> Url(Https, ExampleEdu, PagePath), title |-> LongTitle(40), snippet |-> Snippet(100)]
RWikiOrg == [link |-> Url(Https, WikiOrg, PagePath), title |-> <<"w", "i", "k", "i">>, snippet |-> NoSnippet]
RWikiEdu == [link |-> Url(Http, WikiEdu, PagePath), title |-> <<"u", "n", "i">>, snippet |-> Snippet(20)]
RSite == [link |-> Url(Http, SiteCom, PagePath), title |-> <<"n", "e", "w", "s">>, snippet |-> Snippet(40)]
RGovPdf == [link |-> Url(Https, AgencyGov, PdfPath), title |-> <<"l", "a", "w">>, snippet |-> NoSnippet]
RGov == [link |-> Url(Https, AgencyGov, PagePath), title |-> <<>>, snippet |-> Snippet(320)]
RBad == [link |-> Url(Https, BadCom, PagePath), title |-> <<"b", "a", "d">>, snippet |-> NoSnippet]
RPay == [link |-> Url(Https, PayCom, PagePath), title |-> <<"p", "a", "y">>, snippet |-> NoSnippet]
RFtp == [link |-> Url(Ftp, SiteCom, PagePath), title |-> <<"f", "t", "p">>, snippet |-> NoSnippet]
RUnparsable == [link |-> BadUrl, title |-> <<"b", "r", "o", "k", "e", "n">>, snippet |-> NoSnippet]

\* response.data.organic of one successful API call
ResultLists ==
    { <<>>,
      <<RSite, REdu>>,
      <<RWikiOrg, RUnparsable, RGovPdf>>,
      <<RWikiEdu, RBad, RPay>>,
      <<RGov, RFtp, RSite>> }

\* ---- filterResults (search.js:61-73)
FilterKeeps(result) ==
    LET domain == ExtractDomain(result.link)
        link == LinkString(result.link)
    IN  /\ domain # NoDomain
        /\ domain \notin ExcludedDomains
        /\ domain \notin PaywallDomains
        /\ StartsWith(link, Http)
        /\ ~Includes(link, <<".", "p", "d", "f">>)

FilterResults(results) == SelectSeq(results, FilterKeeps)

\* ---- scoreResults (search.js:98-123); score is kept in twentieths of a
\* point, the common denominator of title.length / 10 and snippet.length / 20
DomainBonus(domain) ==
      (IF EndsWith(domain, <<".", "e", "d", "u">>) \/ EndsWith(domain, <<".", "g", "o", "v">>)
       THEN 30 ELSE 0)
    + (IF EndsWith(domain, <<".", "o", "r", "g">>) THEN 20 ELSE 0)
    + (IF Includes(domain, <<"w", "i", "k", "i">>) THEN 25 ELSE 0)

ProtocolBonus(link) ==
    IF StartsWith(LinkString(link), Https \o <<":", "/", "/">>) THEN 10 ELSE 0

\* Math.min(result.title.length / 10, 20), in twentieths
TitleBonusUndivided(title) ==
    IF title # <<>> THEN Min(20 * Len(title), 20 * 20) ELSE 0
TitleBonusTwentieths(title) ==
    IF title # <<>> THEN Min(2 * Len(title), 20 * 20) ELSE 0

\* Math.min(result.snippet.length / 20, 15), in twentieths
SnippetBonusTwentieths(snippet) ==
    IF snippet # NoSnippet /\ snippet.text # <<>> THEN Min(Len(snippet.text), 15 * 20) ELSE 0

ScoreTwentieths(result) ==
      20 * DomainBonus(ExtractDomain(result.link))
    + 20 * ProtocolBonus(result.link)
    + TitleBonusTwentieths(result.title)
    + SnippetBonusTwentieths(result.snippet)

ScoreResults(results) ==
    [i \in DOMAIN results |->
        [link |-> results[i].link, title |-> results[i].title,
         snippet |-> results[i].snippet, score |-> ScoreTwentieths(results[i])]]

\* ---- processResults (search.js:51-59)
\* the comparator of .sort((a, b) => b.score - a.score)
CompareScoresAscending(a, b) == a.score - b.score
CompareScores(a, b) == b.score - a.score

\* Array.prototype.sort is stable: x goes behind every element the
\* comparator does not put after it
InsertSorted(sorted, x) ==
    LET k == Cardinality({i \in DOMAIN sorted : CompareScores(sorted[i], x) <= 0})
    IN  SubSeq(sorted, 1, k) \o <<x>> \o SubSeq(sorted, k + 1, Len(sorted))

RECURSIVE SortFrom(_, _, _)
SortFrom(results, i, sorted) ==
    IF i > Len(results) THEN sorted
    ELSE SortFrom(results, i + 1, InsertSorted(sorted, results[i]))

Sort(results) == SortFrom(results, 1, <<>>)

ProcessResults(results) ==
    LET filtered == FilterResults(results)
        deduped == RemoveDuplicates(filtered)
        scored == ScoreResults(deduped)
    IN  Slice(Sort(scored), MaxPagesToAnalyze)

\* ---- search / executeSearch (search.js:14-49)
\* executeSearch either rejects (retry gave up, or the response has no data)
\* or resolves with response.data.organic || []
SearchOutcomes ==
    {[ok |-> FALSE, organic |-> <<>>]} \cup {[ok |-> TRUE, organic |-> l] : l \in ResultLists}

\* search.js:18-23: the try/catch around one query
SearchNotCaught(out) == out.ok
SearchCaught(out) == TRUE

SearchParked ==
    /\ sPc = "parked"
    /\ sAnalysis = <<>>
    /\ sKeywords = <<>>
    /\ sQueries = <<>>
    /\ sI = 0
    /\ sAll = <<>>
    /\ sOutcomes = <<>>
    /\ sOut = <<>>

SearchInit ==
    /\ sPc = "ready"
    /\ sAnalysis \in Analyses
    /\ sKeywords \in KeywordSets
    /\ sQueries = <<>>
    /\ sI = 0
    /\ sAll = <<>>
    /\ sOutcomes = <<>>
    /\ sOut = <<>>

GenerateQueries ==
    /\ sPc = "ready"
    /\ sQueries' = GenerateSearchQueries(sAnalysis, sKeywords)
    /\ sPc' = "searching"
    /\ sI' = 1
    /\ UNCHANGED <<sAnalysis, sKeywords, sAll, sOutcomes, sOut>>

\* one iteration of `for (const query of queries)`; the iteration of the last
\* query runs on into processResults and the return
SearchStep(out) ==
    /\ sPc = "searching"
    /\ sI <= Len(sQueries)
    /\ sOutcomes' = Append(sOutcomes, out)
    /\ sAll' = IF out.ok THEN sAll \o out.organic ELSE sAll
    /\ IF ~out.ok /\ ~SearchCaught(out)
       THEN /\ sPc' = "raised"
            /\ UNCHANGED <<sI, sOut>>
       ELSE IF sI = Len(sQueries)
            THEN /\ sPc' = "done"
                 /\ sOut' = ProcessResults(sAll')
                 /\ UNCHANGED sI
            ELSE /\ sI' = sI + 1
                 /\ UNCHANGED <<sPc, sOut>>
    /\ UNCHANGED <<sAnalysis, sKeywords, sQueries>>

SearchNext ==
    \/ GenerateQueries /\ UNCHANGED <<now, limiterVars, retryVars, cacheVars, engineVars, dedupVars, validateVars, scrapeVars, extractVars>>
    \/ \E out \in SearchOutcomes : SearchStep(out) /\ UNCHANGED <<now, limiterVars, retryVars, cacheVars, engineVars, dedupVars, validateVars, scrapeVars, extractVars>>

(***************************************************************************)
(* WebScraper.validateUrls (src/src/services/search.js:772-865)            *)
(***************************************************************************)
NumUrls == 5

\* hostnames of candidate URLs; NoDomain is a URL `new URL` rejects
XCom == <<"x", ".", "c", "o", "m">>
AxCom == <<"a", "x", ".", "c", "o", "m">>
CandidateHosts == {SiteCom, XCom, AxCom, NoDomain}

\* search.js:843-857 (the entries the candidate hosts can meet)
BlacklistedDomains == {XCom, <<"e", "b", "a", "y", ".", "c", "o", "m">>}

\* helpers.js:40-47
ValidateUrl(url) == url.host # NoDomain

\* search.js:859-864: domain.includes(blocked) for some blocked domain
IsBlacklistedDomain(url) ==
    IF url.host = NoDomain THEN TRUE
    ELSE \E blocked \in BlacklistedDomains : Includes(url.host, blocked)

\* what axios.head does: it resolves with a response whose status passes
\* validateStatus (200..499), or rejects with an error that carries a code
\* and, for a status outside that range, the response
NoResponse == 0
TextHtml == <<"text/html">>
ApplicationPdf == <<"application/pdf">>
NoContentType == <<>>
ProbeOutcomes ==
    { [kind |-> "response", status |-> 200, contentType |-> TextHtml, code |-> "none"],
      [kind |-> "response", status |-> 301, contentType |-> NoContentType, code |-> "none"],
      [kind |-> "response", status |-> 200, contentType |-> ApplicationPdf, code |-> "none"],
      [kind |-> "response", status |-> 403, contentType |-> TextHtml, code |-> "none"],
      [kind |-> "error", status |-> NoResponse, contentType |-> NoContentType, code |-> "ENOTFOUND"],
      [kind |-> "error", status |-> NoResponse, contentType |-> NoContentType, code |-> "ECONNABORTED"],
      [kind |-> "error", status |-> 503, contentType |-> TextHtml, code |-> "ERR_BAD_RESPONSE"] }

Pending == [kind |-> "pending"]
NotProbed == [kind |-> "none"]

\* search.js:800
ContentTypeAccepted(contentType) ==
    contentType = TextHtml \/ contentType = <<"text/plain">> \/ contentType = NoContentType

\* search.js:805-808
ClientErrorDropped(status) == FALSE
ClientErrorTolerated(status) == status >= 400 /\ status < 500

\* search.js:798-811: TRUE when the callback returns the URL
ResponseKeeps(response) ==
    IF response.status >= 200 /\ response.status < 400
    THEN ContentTypeAccepted(response.contentType)
    ELSE ClientErrorTolerated(response.status)

\* search.js:816-818
CatchToleratesAll(error) == TRUE
CatchTolerates(error) ==
    error.code = "ECONNABORTED" \/ error.status = 405 \/ error.status = 403

\* the value the callback of urls.map settles with: TRUE for the URL, FALSE for null
CallbackKeeps(url, probe) ==
    IF ~ValidateUrl(url) \/ IsBlacklistedDomain(url) THEN FALSE
    ELSE IF probe.kind = "response" THEN ResponseKeeps(probe)
    ELSE CatchTolerates(probe)

\* the kept URLs, latest first
RECURSIVE CollectValidReversed(_, _, _)
CollectValidReversed(urls, probes, i) ==
    IF i > Len(urls) THEN <<>>
    ELSE CollectValidReversed(urls, probes, i + 1)
         \o (IF CallbackKeeps(urls[i], probes[i]) THEN <<urls[i]>> ELSE <<>>)

\* search.js:831-836
RECURSIVE CollectValid(_, _, _)
CollectValid(urls, probes, i) ==
    IF i > Len(urls) THEN <<>>
    ELSE (IF CallbackKeeps(urls[i], probes[i]) THEN <<urls[i]>> ELSE <<>>)
         \o CollectValid(urls, probes, i + 1)

ValidateParked ==
    /\ vPc = "parked"
    /\ vUrls = <<>>
    /\ vProbe = <<>>
    /\ vOut = <<>>
    /\ vHeads = <<>>

\* candidate i is the URL of host h with path i
ValidateInit ==
    /\ vPc = "ready"
    /\ \E hosts \in [1..NumUrls -> CandidateHosts] :
          vUrls = [i \in 1..NumUrls |-> Url(Https, hosts[i], <<i>>)]
    /\ vProbe = <<>>
    /\ vOut = <<>>
    /\ vHeads = <<>>

\* search.js:777-796: the URLs whose callback reaches axios.head
ProbedUrls(urls) ==
    SelectSeq(urls, LAMBDA url : ValidateUrl(url) /\ ~IsBlacklistedDomain(url))

\* urls.map(async ...): every callback runs up to its first await
StartProbes(urls) ==
    /\ vProbe' = [i \in DOMAIN urls |->
                    IF ~ValidateUrl(urls[i]) \/ IsBlacklistedDomain(urls[i])
                    THEN NotProbed ELSE Pending]
    /\ vHeads' = vHeads \o ProbedUrls(urls)
    /\ vPc' = "probing"

\* validateUrls(urls) is called
ValidateCall ==
    /\ vPc = "ready"
    /\ StartProbes(vUrls)
    /\ UNCHANGED <<vUrls, vOut>>

\* one HEAD request settles
ProbeSettles(i, outcome) ==
    /\ vPc = "probing"
    /\ i \in DOMAIN vProbe
    /\ vProbe[i] = Pending
    /\ vProbe' = [vProbe EXCEPT ![i] = outcome]
    /\ UNCHANGED <<vPc, vUrls, vOut, vHeads>>

\* Promise.allSettled resolves
ValidateReturn ==
    /\ vPc = "probing"
    /\ \A i \in DOMAIN vProbe : vProbe[i] # Pending
    /\ vOut' = CollectValid(vUrls, vProbe, 1)
    /\ vPc' = "done"
    /\ UNCHANGED <<vUrls, vProbe, vHeads>>

ValidateNext ==
    \/ ValidateCall /\ UNCHANGED <<now, limiterVars, retryVars, cacheVars, engineVars, dedupVars, searchVars, scrapeVars, extractVars>>
    \/ \E i \in 1..NumUrls, outcome \in ProbeOutcomes :
          ProbeSettles(i, outcome) /\ UNCHANGED <<now, limiterVars, retryVars, cacheVars, engineVars, dedupVars, searchVars, scrapeVars, extractVars>>
    \/ ValidateReturn /\ UNCHANGED <<now, limiterVars, retryVars, cacheVars, engineVars, dedupVars, searchVars, scrapeVars, extractVars>>

(***************************************************************************)
(* WebScraper.scrapeUrls (src/src/services/search.js:179-250)              *)
(***************************************************************************)
MaxScrapeUrls == 3
\* this.maxCacheSize
ScraperMaxCacheSize == 2

ScrapeHosts == {SiteCom, ExampleEdu, WikiOrg}
ScrapeUrlSet == {Url(Https, h, PagePath) : h \in ScrapeHosts}

\* what `await this.scrapeUrl(url)` gives: a rejection, or a content record, of
\* which isValidContent reads text.length and whether the text has an error keyword
ScrapeUrlOutcomes ==
    { [kind |-> "error", length |-> 0, errorKeyword |-> FALSE],
      [kind |-> "content", length |-> 0, errorKeyword |-> FALSE],
      [kind |-> "content", length |-> 100, errorKeyword |-> FALSE],
      [kind |-> "content", length |-> 101, errorKeyword |-> FALSE],
      [kind |-> "content", length |-> 999, errorKeyword |-> TRUE],
      [kind |-> "content", length |-> 500000, errorKeyword |-> FALSE] }

Content(url, outcome) ==
    [url |-> url, length |-> outcome.length, errorKeyword |-> outcome.errorKeyword]

\* search.js:230-237
IsErrorPage(content) == content.errorKeyword /\ content.length < 1000

\* search.js:222-228
IsValidContent(content) ==
    /\ content.length # 0
    /\ content.length > 100
    /\ content.length < 500000
    /\ ~IsErrorPage(content)

\* this.cache: a Map in insertion order of url -> {content, timestamp};
\* fresh stands for Date.now() - timestamp < 300000
CacheHas(cache, url) == \E i \in DOMAIN cache : cache[i].url = url

CacheEntry(cache, url) == cache[CHOOSE i \in DOMAIN cache : cache[i].url = url]

\* Map.prototype.set: an existing key keeps its place
MapSet(cache, entry) ==
    IF CacheHas(cache, entry.url)
    THEN [i \in DOMAIN cache |-> IF cache[i].url = entry.url THEN entry ELSE cache[i]]
    ELSE Append(cache, entry)

\* search.js:239-250
CacheContent(cache, url, content) ==
    LET trimmed == IF Len(cache) >= ScraperMaxCacheSize THEN Tail(cache) ELSE cache
    IN  MapSet(trimmed, [url |-> url, content |-> content, fresh |-> TRUE])

\* search.js:181: the URLs validateUrls lets through, an order-preserving selection
Selections(urls) ==
    {SelectSeq([i \in DOMAIN urls |-> [u |-> urls[i], keep |-> i \in keep]], LAMBDA e : e.keep)
        : keep \in SUBSET DOMAIN urls}

Validated(urls) == {[i \in DOMAIN sel |-> sel[i].u] : sel \in Selections(urls)}

\* search.js:185
PageCap(validUrls) == Slice(validUrls, MaxPagesToAnalyze)

\* search.js:186, 209-215: the try/catch around one page
ScrapeNotCaught(outcome) == FALSE
ScrapeCaught(outcome) == TRUE

ScrapeParked ==
    /\ scPc = "parked"
    /\ scUrls = <<>>
    /\ scValid = <<>>
    /\ scI = 0
    /\ scResults = <<>>
    /\ scAttempts = <<>>
    /\ scCache = <<>>

ScrapeInit ==
    /\ scPc = "idle"
    /\ scUrls = <<>>
    /\ scValid = <<>>
    /\ scI = 0
    /\ scResults = <<>>
    /\ scAttempts = <<>>
    /\ scCache = <<>>

\* scrapeUrls(urls) up to the loop: validateUrls has resolved with validUrls
ScrapeUrlsCall(urls, validUrls) ==
    /\ scPc \in {"idle", "done"}
    /\ validUrls \in Validated(urls)
    /\ scUrls' = urls
    /\ scValid' = validUrls
    /\ scResults' = <<>>
    /\ scAttempts' = <<>>
    /\ scI' = 1
    /\ scPc' = IF PageCap(validUrls) = <<>> THEN "done" ELSE "loop"
    /\ UNCHANGED scCache

\* one iteration of the loop over validUrls.slice(0, maxPagesToAnalyze); the
\* last one runs on into the return
ScrapePage(outcome) ==
    /\ scPc = "loop"
    /\ LET url == PageCap(scValid)[scI]
           hit == CacheHas(scCache, url) /\ CacheEntry(scCache, url).fresh
           content == Content(url, outcome)
           kept == outcome.kind = "content" /\ IsValidContent(content)
           last == scI = Len(PageCap(scValid))
       IN  IF hit
           THEN /\ outcome = [kind |-> "error", length |-> 0, errorKeyword |-> FALSE]
                /\ scResults' = Append(scResults, CacheEntry(scCache, url).content)
                /\ scAttempts' = Append(scAttempts, [url |-> url, how |-> "cached"])
                /\ scPc' = IF last THEN "done" ELSE "loop"
                /\ scI' = scI + 1
                /\ UNCHANGED scCache
           ELSE /\ scAttempts' = Append(scAttempts,
                       [url |-> url,
                        how |-> IF kept THEN "scraped"
                                ELSE IF outcome.kind = "error" THEN "failed" ELSE "invalid"])
                /\ scResults' = IF kept THEN Append(scResults, content) ELSE scResults
                /\ scCache' = IF kept THEN CacheContent(scCache, url, content) ELSE scCache
                /\ IF outcome.kind = "error" /\ ~ScrapeCaught(outcome)
                   THEN scPc' = "raised" /\ UNCHANGED scI
                   ELSE /\ scPc' = IF last THEN "done" ELSE "loop"
                        /\ scI' = scI + 1
    /\ UNCHANGED <<scUrls, scValid>>

\* five minutes pass for one cached page
ScrapeCacheAges(i) ==
    /\ scPc \in {"idle", "done"}
    /\ i \in DOMAIN scCache
    /\ scCache[i].fresh
    /\ scCache' = [scCache EXCEPT ![i].fresh = FALSE]
    /\ UNCHANGED <<scPc, scUrls, scValid, scI, scResults, scAttempts>>

\* lists of distinct URLs
ScrapeInputs ==
    {urls \in UNION {[1..n -> ScrapeUrlSet] : n \in 0..MaxScrapeUrls} :
        \A i, j \in DOMAIN urls : i # j => urls[i] # urls[j]}

ScrapeNext ==
    \/ \E urls \in ScrapeInputs : \E validUrls \in Validated(urls) :
          ScrapeUrlsCall(urls, validUrls) /\ UNCHANGED <<now, limiterVars, retryVars, cacheVars, engineVars, dedupVars, searchVars, validateVars, extractVars>>
    \/ \E outcome \in ScrapeUrlOutcomes :
          ScrapePage(outcome) /\ UNCHANGED <<now, limiterVars, retryVars, cacheVars, engineVars, dedupVars, searchVars, validateVars, extractVars>>
    \/ \E i \in 1..ScraperMaxCacheSize :
          ScrapeCacheAges(i) /\ UNCHANGED <<now, limiterVars, retryVars, cacheVars, engineVars, dedupVars, searchVars, validateVars, extractVars>>

(***************************************************************************)
(* WebScraper.scrapeUrl, scrapeUrlWithStreaming, extractContent,           *)
(* extractContentFromLargePage, cleanText, isQualityContent                *)
(* (src/src/services/search.js:261-483, 549-565, 714-770).                 *)
(* A text is described by what the code reads of it: its length, the index *)
(* of the last '.' among its first maxTextLength characters (NoIndex when  *)
(* there is none), and the numbers of words, of sentence-like segments and *)
(* of distinct words that isQualityContent counts in the text returned.    *)
(***************************************************************************)
\* cleanText: maxTextLength
MaxTextLength == 150000
\* extractContent: isLargePage = html.length > 300000
LargePageThreshold == 300000
\* extractContentFromLargePage: mainContent.length > 50000
LargePageContentLimit == 50000
\* scrapeUrl: content.text.length < 50
MinScrapedLength == 50
\* isQualityContent: text.length < 100
MinQualityLength == 100
\* String.prototype.lastIndexOf found nothing
NoIndex == 0 - 1

\* main-content texts that the replacements of cleanText leave as they are
MainTexts ==
    {t \in [length : {0, 40, 60, 100, 50001, 150000, 150001, 200000},
            lastDot : {NoIndex, 39, 120000, 120001},
            words : {1, 20, 49, 50},
            sentences : {0, 2, 3},
            uniqueWords : {1, 14, 15, 20}] :
        /\ t.lastDot < t.length
        /\ 2 * t.words - 1 <= t.length \/ (t.length = 0 /\ t.words = 1)
        /\ 11 * t.sentences <= t.length
        /\ t.uniqueWords <= t.words
        /\ t.words = 1 => t.uniqueWords = 1
        /\ t.words = 20 => t.uniqueWords = 20
        /\ t.words = 49 => t.uniqueWords = 20}

\* the page behind a URL: what every GET of it meets (a response, a body over
\* maxContentLength, a status outside 200..399, a timeout, or a timeout on
\* the first request only), the content type of the response, the length of
\* the body and its main-content text
Pages ==
    [fetch : {"ok", "tooLarge", "badStatus", "timeout", "flaky"},
     contentType : {TextHtml, ApplicationPdf},
     htmlLength : {LargePageThreshold, LargePageThreshold + 1, 2 * LargePageThreshold},
     text : MainTexts]

\* search.js:756-767: the truncation of cleanText
Truncate(text) ==
    IF 10 * text.lastDot > 8 * MaxTextLength
    THEN [text EXCEPT !.length = text.lastDot + 1]
    ELSE [text EXCEPT !.length = MaxTextLength + 3]

\* search.js:714-770
CleanText(text) ==
    IF text.length = 0 THEN text
    ELSE IF text.length > MaxTextLength THEN Truncate(text)
    ELSE text

\* search.js:549-565
IsQualityContent(text) ==
    /\ text.length >= MinQualityLength
    /\ text.words >= 50
    /\ text.sentences >= 3
    /\ 10 * text.uniqueWords >= 3 * text.words

\* search.js:466-469
LimitLargePage(text) ==
    IF text.length > LargePageContentLimit
    THEN [text EXCEPT !.length = LargePageContentLimit + 3,
                      !.lastDot = IF text.lastDot < LargePageContentLimit
                                  THEN text.lastDot ELSE NoIndex]
    ELSE text

ExtractionError == [kind |-> "error", path |-> "none", text |-> <<>>]

\* search.js:435-483
ExtractContentFromLargePage(text) ==
    [kind |-> "content", path |-> "large", text |-> CleanText(LimitLargePage(text))]

\* search.js:382-433
ExtractContent(htmlLength, text) ==
    IF htmlLength > LargePageThreshold
    THEN ExtractContentFromLargePage(text)
    ELSE LET cleanedText == CleanText(text)
         IN  IF ~IsQualityContent(cleanedText) THEN ExtractionError
             ELSE [kind |-> "content", path |-> "generic", text |-> cleanedText]

\* search.js:302-318: after the response has arrived
HandleResponse(page) ==
    IF page.contentType # TextHtml THEN ExtractionError
    ELSE LET content == ExtractContent(page.htmlLength, page.text)
         IN  IF content.kind = "error" THEN ExtractionError
             ELSE IF content.text.length = 0 \/ content.text.length < MinScrapedLength
                  THEN ExtractionError
                  ELSE content

NoPage == <<>>

\* this.retryAttempts
RetryAttempts == 3
\* scrapeUrlWithStreaming: maxSize
StreamingMaxSize == 500000

\* the sizes of the chunks a response stream delivers before its last one
ChunkSizes == {200000, 250000}

\* scrapeUrlWithStreaming has not been called
NoStream == [state |-> "none", htmlContent |-> 0, totalSize |-> 0, timeout |-> "none"]

\* how attempt i of retry(axios.get) settles for a page
AttemptOutcome(page, i) ==
    IF page.fetch = "flaky" THEN (IF i = 0 THEN "timeout" ELSE "ok")
    ELSE page.fetch

\* timeouts and connection errors, as opposed to what the page itself is
IsTransientFailure(outcome) == outcome = "timeout"

\* search.js:294-295
IsTooLargeError(outcome) == outcome = "tooLarge"

ExtractParked ==
    /\ xPc = "parked"
    /\ xPage = NoPage
    /\ xVia = "none"
    /\ xOut = ExtractionError
    /\ xAttempt = 0
    /\ xRequests = 0
    /\ xTransient = 0
    /\ xParsed = FALSE
    /\ xSettledBy = "none"
    /\ xStream = NoStream

ExtractInit ==
    /\ xPc = "ready"
    /\ xPage = NoPage
    /\ xVia = "none"
    /\ xOut = ExtractionError
    /\ xAttempt = 0
    /\ xRequests = 0
    /\ xTransient = 0
    /\ xParsed = FALSE
    /\ xSettledBy = "none"
    /\ xStream = NoStream

\* resolve(value) or reject(error) of the promise scrapeUrl returns: only the
\* first call settles it
SettlePromise(by, out) ==
    IF xPc = "done"
    THEN UNCHANGED <<xPc, xOut, xSettledBy>>
    ELSE xPc' = "done" /\ xOut' = out /\ xSettledBy' = by

\* clearTimeout(timeout): a timer that has fired stays fired
ClearTimeout(stream) ==
    [stream EXCEPT !.timeout = IF stream.timeout = "armed" THEN "cleared" ELSE stream.timeout]

\* scrapeUrl(url): retry calls axios.get for the first time
XScrapeUrl(page) ==
    /\ xPc = "ready"
    /\ xPage' = page
    /\ xPc' = "fetching"
    /\ xVia' = "normal"
    /\ xOut' = ExtractionError
    /\ xAttempt' = 0
    /\ xRequests' = 1
    /\ UNCHANGED <<xTransient, xParsed, xSettledBy, xStream>>

\* one axios.get of retry settles (search.js:268-318, helpers.js:29-38): a
\* response goes through the checks of scrapeUrl; an error makes retry call
\* axios.get again unless it was the last attempt, after which a body over
\* maxContentLength leads to scrapeUrlWithStreaming and any other error is rethrown
XFetchSettles ==
    /\ xPc = "fetching"
    /\ LET outcome == AttemptOutcome(xPage, xAttempt)
       IN  IF outcome = "ok"
           THEN /\ xPc' = "done"
                /\ xOut' = HandleResponse(xPage)
                /\ xSettledBy' = "normal"
                /\ xParsed' = (xPage.contentType = TextHtml)
                /\ UNCHANGED <<xVia, xAttempt, xRequests, xTransient, xStream>>
           ELSE /\ xTransient' = IF IsTransientFailure(outcome) THEN xTransient + 1 ELSE xTransient
                /\ IF ~IsLastAttempt(xAttempt, RetryAttempts)
                   THEN /\ xAttempt' = xAttempt + 1
                        /\ xRequests' = xRequests + 1
                        /\ UNCHANGED <<xPc, xVia, xOut, xParsed, xSettledBy, xStream>>
                   ELSE IF IsTooLargeError(outcome)
                        THEN /\ xPc' = "streaming"
                             /\ xVia' = "streaming"
                             /\ xRequests' = xRequests + 1
                             /\ xStream' = [state |-> "requested", htmlContent |-> 0,
                                            totalSize |-> 0, timeout |-> "armed"]
                             /\ UNCHANGED <<xOut, xAttempt, xParsed, xSettledBy>>
                        ELSE /\ xPc' = "done"
                             /\ xOut' = ExtractionError
                             /\ xSettledBy' = "normal"
                             /\ UNCHANGED <<xVia, xAttempt, xRequests, xParsed, xStream>>
    /\ UNCHANGED xPage

\* search.js:327: the timer of scrapeUrlWithStreaming fires; it rejects and
\* leaves the request and the stream as they are
XStreamTimeout ==
    /\ xStream.timeout = "armed"
    /\ xStream' = [xStream EXCEPT !.timeout = "fired"]
    /\ SettlePromise("timeout", ExtractionError)
    /\ UNCHANGED <<xPage, xVia, xAttempt, xRequests, xTransient, xParsed>>

\* search.js:340-374: the streaming request got its response, the handlers are attached
XStreamOpens ==
    /\ xStream.state = "requested"
    /\ xStream' = [xStream EXCEPT !.state = "open"]
    /\ UNCHANGED <<xPc, xPage, xVia, xOut, xAttempt, xRequests, xTransient, xParsed, xSettledBy>>

\* search.js:375-378: the streaming request failed
XStreamRequestFails ==
    /\ xStream.state = "requested"
    /\ xStream' = [ClearTimeout(xStream) EXCEPT !.state = "failed"]
    /\ SettlePromise("requestError", ExtractionError)
    /\ UNCHANGED <<xPage, xVia, xAttempt, xRequests, xTransient, xParsed>>

\* search.js:344
NeverExceedsMaxSize(totalSize) == FALSE
ExceedsMaxSize(totalSize) == totalSize > StreamingMaxSize

\* the sizes the next chunk can have: one of ChunkSizes, or all that is left of the body
NextChunkSizes ==
    IF xStream.state \in {"open", "destroyed"}
    THEN LET left == xPage.htmlLength - xStream.totalSize
         IN  {size \in ChunkSizes \cup {left} : size >= 1 /\ size <= left}
    ELSE {}

\* search.js:341-359: the 'data' handler runs for a chunk of size bytes. A chunk
\* the stream had read before destroy() may still be handed to the handler.
XChunk(size) ==
    /\ xStream.state \in {"open", "destroyed"}
    /\ size \in NextChunkSizes
    /\ LET totalSize == xStream.totalSize + size
       IN  IF ExceedsMaxSize(totalSize)
           THEN /\ xStream' = [ClearTimeout(xStream) EXCEPT !.state = "destroyed",
                                                            !.totalSize = totalSize]
                /\ xParsed' = TRUE
                /\ SettlePromise("overflow", ExtractContent(xStream.htmlContent, xPage.text))
           ELSE /\ xStream' = [xStream EXCEPT !.totalSize = totalSize,
                                              !.htmlContent = xStream.htmlContent + size]
                /\ UNCHANGED <<xPc, xOut, xSettledBy, xParsed>>
    /\ UNCHANGED <<xPage, xVia, xAttempt, xRequests, xTransient>>

\* search.js:361-369: the 'end' handler
XStreamEnd ==
    /\ xStream.state = "open"
    /\ xStream.totalSize = xPage.htmlLength
    /\ xStream' = [ClearTimeout(xStream) EXCEPT !.state = "ended"]
    /\ xParsed' = TRUE
    /\ SettlePromise("end", ExtractContent(xStream.htmlContent, xPage.text))
    /\ UNCHANGED <<xPage, xVia, xAttempt, xRequests, xTransient>>

\* search.js:371-374: the 'error' handler
XStreamError ==
    /\ xStream.state = "open"
    /\ xStream' = [ClearTimeout(xStream) EXCEPT !.state = "errored"]
    /\ SettlePromise("streamError", ExtractionError)
    /\ UNCHANGED <<xPage, xVia, xAttempt, xRequests, xTransient, xParsed>>

ExtractNext ==
    \/ xPc = "ready" /\ \E page \in Pages :
          XScrapeUrl(page) /\ UNCHANGED <<now, limiterVars, retryVars, cacheVars, engineVars, dedupVars, searchVars, validateVars, scrapeVars>>
    \/ XFetchSettles /\ UNCHANGED <<now, limiterVars, retryVars, cacheVars, engineVars, dedupVars, searchVars, validateVars, scrapeVars>>
    \/ XStreamTimeout /\ UNCHANGED <<now, limiterVars, retryVars, cacheVars, engineVars, dedupVars, searchVars, validateVars, scrapeVars>>
    \/ XStreamOpens /\ UNCHANGED <<now, limiterVars, retryVars, cacheVars, engineVars, dedupVars, searchVars, validateVars, scrapeVars>>
    \/ XStreamRequestFails /\ UNCHANGED <<now, limiterVars, retryVars, cacheVars, engineVars, dedupVars, searchVars, validateVars, scrapeVars>>
    \/ \E size \in NextChunkSizes :
          XChunk(size) /\ UNCHANGED <<now, limiterVars, retryVars, cacheVars, engineVars, dedupVars, searchVars, validateVars, scrapeVars>>
    \/ XStreamEnd /\ UNCHANGED <<now, limiterVars, retryVars, cacheVars, engineVars, dedupVars, searchVars, validateVars, scrapeVars>>
    \/ XStreamError /\ UNCHANGED <<now, limiterVars, retryVars, cacheVars, engineVars, dedupVars, searchVars, validateVars, scrapeVars>>

(***************************************************************************)
(* processQuery, step 5 (part_003:43-45 / 273-277): validateUrls of the    *)
(* search URLs, then scrapeUrls of the validated ones, which validates     *)
(* its argument itself (search.js:179-185) before the page loop            *)
(***************************************************************************)
\* the search URLs: removeDuplicates has left no URL twice
FetchStageInit ==
    /\ vPc = "ready"
    /\ vUrls \in ScrapeInputs
    /\ vProbe = <<>>
    /\ vOut = <<>>
    /\ vHeads = <<>>
    /\ ScrapeInit

\* part_003:45 and search.js:179-181: scrapeUrls(validUrls) is called and
\* calls this.validateUrls(urls)
ScrapeUrlsValidates ==
    /\ vPc = "done"
    /\ scPc = "idle"
    /\ scUrls' = vOut
    /\ vUrls' = vOut
    /\ StartProbes(vOut)
    /\ scPc' = "validating"
    /\ UNCHANGED <<vOut, scValid, scI, scResults, scAttempts, scCache>>

\* search.js:181-185: validateUrls has resolved inside scrapeUrls
ScrapeUrlsResumes ==
    /\ scPc = "validating"
    /\ vPc = "done"
    /\ scValid' = vOut
    /\ scI' = 1
    /\ scPc' = IF PageCap(vOut) = <<>> THEN "done" ELSE "loop"
    /\ UNCHANGED <<validateVars, scUrls, scResults, scAttempts, scCache>>

FetchStageNext ==
    \/ ValidateCall /\ UNCHANGED <<now, limiterVars, retryVars, cacheVars, engineVars, dedupVars, searchVars, scrapeVars, extractVars>>
    \/ \E i \in 1..MaxScrapeUrls, outcome \in ProbeOutcomes :
          ProbeSettles(i, outcome) /\ UNCHANGED <<now, limiterVars, retryVars, cacheVars, engineVars, dedupVars, searchVars, scrapeVars, extractVars>>
    \/ ValidateReturn /\ UNCHANGED <<now, limiterVars, retryVars, cacheVars, engineVars, dedupVars, searchVars, scrapeVars, extractVars>>
    \/ ScrapeUrlsValidates /\ UNCHANGED <<now, limiterVars, retryVars, cacheVars, engineVars, dedupVars, searchVars, extractVars>>
    \/ ScrapeUrlsResumes /\ UNCHANGED <<now, limiterVars, retryVars, cacheVars, engineVars, dedupVars, searchVars, extractVars>>
    \/ \E outcome \in ScrapeUrlOutcomes :
          ScrapePage(outcome) /\ UNCHANGED <<now, limiterVars, retryVars, cacheVars, engineVars, dedupVars, searchVars, validateVars, extractVars>>

LaterParked == SearchParked /\ ValidateParked /\ ScrapeParked /\ ExtractParked

(***************************************************************************)
(* Specifications: one per component, the others parked                    *)
(***************************************************************************)
LimiterParked ==
    /\ lastRequest = 0
    /\ queue = <<>>
    /\ opState = <<>>
    /\ wakeAt = <<>>
    /\ dispatchLog = <<>>

\* Date.now() is far past lastRequest = 0 when the limiter is built
SpecLimiterInit ==
    /\ now = Interval
    /\ LimiterInit /\ RetryParked /\ CacheInit /\ EngineParked /\ DedupParked /\ LaterParked

SpecLimiter == SpecLimiterInit /\ [][LimiterNext]_vars

SpecRetryInit ==
    /\ now = 0
    /\ LimiterParked /\ RetryInit /\ CacheInit /\ EngineParked /\ DedupParked /\ LaterParked

SpecRetry == SpecRetryInit /\ [][RetryNext]_vars

SpecCacheInit ==
    /\ now = 0
    /\ LimiterParked /\ RetryParked /\ CacheInit /\ EngineParked /\ DedupParked /\ LaterParked

SpecCache == SpecCacheInit /\ [][CacheNext]_vars

SpecEngineInit ==
    /\ now = 0
    /\ LimiterParked /\ RetryParked /\ CacheInit /\ EngineInit /\ DedupParked /\ LaterParked

SpecEngine == SpecEngineInit /\ [][EngineNext]_vars

SpecDedupInit ==
    /\ now = 0
    /\ LimiterParked /\ RetryParked /\ CacheInit /\ EngineParked /\ DedupInit /\ LaterParked

SpecDedup == SpecDedupInit /\ [][DedupNext]_vars

SpecSearchInit ==
    /\ now = 0
    /\ LimiterParked /\ RetryParked /\ CacheInit /\ EngineParked /\ DedupParked
    /\ SearchInit /\ ValidateParked /\ ScrapeParked /\ ExtractParked

SpecSearch == SpecSearchInit /\ [][SearchNext]_vars

SpecValidateInit ==
    /\ now = 0
    /\ LimiterParked /\ RetryParked /\ CacheInit /\ EngineParked /\ DedupParked
    /\ SearchParked /\ ValidateInit /\ ScrapeParked /\ ExtractParked

SpecValidate == SpecValidateInit /\ [][ValidateNext]_vars

SpecScrapeInit ==
    /\ now = 0
    /\ LimiterParked /\ RetryParked /\ CacheInit /\ EngineParked /\ DedupParked
    /\ SearchParked /\ ValidateParked /\ ScrapeInit /\ ExtractParked

SpecScrape == SpecScrapeInit /\ [][ScrapeNext]_vars

SpecExtractInit ==
    /\ now = 0
    /\ LimiterParked /\ RetryParked /\ CacheInit /\ EngineParked /\ DedupParked
    /\ SearchParked /\ ValidateParked /\ ScrapeParked /\ ExtractInit

SpecExtract == SpecExtractInit /\ [][ExtractNext]_vars

SpecFetchStageInit ==
    /\ now = 0
    /\ LimiterParked /\ RetryParked /\ CacheInit /\ EngineParked /\ DedupParked
    /\ SearchParked /\ FetchStageInit /\ ExtractParked

SpecFetchStage == SpecFetchStageInit /\ [][FetchStageNext]_vars

(***************************************************************************)
(* Properties                                                              *)
(***************************************************************************)
ResultFields == {"response", "sources", "confidence", "metadata"}

\* C1: processQuery never raises: whichever stage fails, it returns a result
\* object carrying response, sources, confidence and metadata.
C1_NeverRaises ==
    /\ pOut.kind # "raised"
    /\ pc = "done" =>
        /\ pOut.kind = "returned"
        /\ ResultFields \subseteq DOMAIN pOut.result

\* a run in which synthesis threw has returned the degraded result
C1_Witness ==
    /\ pc = "done"
    /\ pFailed = "synthesize"
    /\ pOut.kind = "returned"
    /\ pOut.result.confidence = 0

InFlight == {o \in Ops : opState[o] = "inflight"}

\* C2: at every moment the number of operations whose function has started and
\* has not settled is at most maxConcurrent.
C2_AtMostMaxConcurrent == Cardinality(InFlight) <= MaxConcurrent

\* the limiter is saturated while another operation is held back in the queue
C2_Witness ==
    /\ Cardinality(InFlight) = MaxConcurrent
    /\ queue # <<>>

\* C3: the moments at which any two operations of one limiter are invoked
\* differ by at least the configured interval.
C3_DispatchSpacing ==
    \A i, j \in DOMAIN dispatchLog :
        i < j => dispatchLog[j] - dispatchLog[i] >= Interval

FailedCalls == {k \in DOMAIN rCalls : ~rCalls[k].ok}

\* C4: with attempts >= 1, retry invokes the operation at most attempts times,
\* stops at the first success and returns its value, sleeps delay * 2^i after
\* failed attempt i only when another attempt follows, and after attempts
\* failures raises the error of the last attempt.
C4_Retry ==
    rAttempts >= 1 =>
        /\ Len(rCalls) <= rAttempts
        /\ \A k \in 1..(Len(rCalls) - 1) : ~rCalls[k].ok
        /\ rPc = "loop" => rI < rAttempts
        /\ rPc = "returned" =>
            /\ rCalls # <<>>
            /\ rCalls[Len(rCalls)].ok
            /\ rResult = rCalls[Len(rCalls)].val
        /\ rPc = "raised" =>
            /\ Len(rCalls) = rAttempts
            /\ FailedCalls = DOMAIN rCalls
            /\ rResult = rCalls[Len(rCalls)].val
        /\ Len(rSleeps) = Cardinality(FailedCalls) - (IF rPc = "raised" THEN 1 ELSE 0)
        /\ \A k \in DOMAIN rSleeps : rSleeps[k] = rDelay * 2^(k - 1)

\* every attempt failed, with different errors: the last one is raised
C4_Witness ==
    /\ rPc = "raised"
    /\ rAttempts >= 2
    /\ Len(rSleeps) = rAttempts - 1
    /\ rCalls[1].val # rCalls[Len(rCalls)].val

\* C5: when search returns zero results, processQuery returns a result with no
\* sources, confidence 0 and a non-empty response, and neither validates,
\* scrapes nor synthesizes.
C5_ZeroResults ==
    (pc = "done" /\ pSearchN = 0 /\ \E i \in DOMAIN pTrace : pTrace[i] = "search") =>
        /\ pOut.kind = "returned"
        /\ pOut.result.sources = <<>>
        /\ pOut.result.confidence = 0
        /\ pOut.result.response # <<>>
        /\ \A i \in DOMAIN pTrace : pTrace[i] \notin {"validate", "scrape", "summarize", "synthesize"}

C5_Witness ==
    /\ pc = "done"
    /\ pSearchN = 0
    /\ pFailed = "search"
    /\ pOut.result.metadata.error = NO_SEARCH_RESULTS_ERROR

\* C6: a get(q') right after a successful set(q, value), q and q' equal after
\* lowercasing and trimming, returns an entry with every field of value plus
\* the write timestamp and the (truncated) query.
C6_GetAfterSet ==
    [][ ( /\ cLast.op = "set"
          /\ cLast.status = "ok"
          /\ cLast'.op = "get"
          /\ Trim(ToLowerCase(cLast'.q)) = Trim(ToLowerCase(cLast.q)) )
        => /\ cLast'.ret # Null
           /\ \A f \in DOMAIN cLast.v :
                f \in DOMAIN cLast'.ret /\ cLast'.ret[f] = cLast.v[f]
           /\ cLast'.ret.timestamp = now
           /\ cLast'.ret.query = SubSeq(cLast.q, 1, Min(Len(cLast.q), CACHE_QUERY_STORAGE_LENGTH))
      ]_vars

\* a hit for a query written differently from the one that was stored
C6_Witness ==
    /\ cLast.op = "get"
    /\ cLast.ret # Null
    /\ cLast.ret.query # cLast.q

\* C7: a cache failure never changes what processQuery returns: when the cache
\* write fails after synthesis succeeded, the synthesized result is returned.
C7_CacheFailureTransparent ==
    (pc = "done" /\ pBuilt # Null) => pOut.result = pBuilt

\* C8: set on a full cache stores the new entry (evicting another), and the
\* number of entries never exceeds the maximum.
C8_SetStoresWhenFull ==
    /\ Cardinality(DOMAIN cData) <= MaxKeys
    /\ cLast.op = "set" => GenerateCacheKey(cLast.q) \in DOMAIN cData

\* C9: a get more than the TTL after the latest set for its key returns the
\* miss value, as for a key that was never set.
C9_ExpiredIsMiss ==
    cLast.op = "get" =>
        LET k == GenerateCacheKey(cLast.q) IN
        (cSetAt[k] = NoTime \/ now > cSetAt[k] + StdTTL) => cLast.ret = Null

\* a get for a key that was set, issued after its time to live
C9_Witness ==
    /\ cLast.op = "get"
    /\ cSetAt[GenerateCacheKey(cLast.q)] # NoTime
    /\ now > cSetAt[GenerateCacheKey(cLast.q)] + StdTTL
    /\ cLast.ret = Null

\* C10: the list removeDuplicates returns has no domain more than
\* maxUrlsPerDomain times, no two titles more than 0.9 similar, no URL twice.
C10_Deduplicated ==
    ddPc = "done" =>
        /\ \A i \in DOMAIN ddOutput :
            DomainCount(ddOutput, ExtractDomain(ddOutput[i].link)) <= MaxUrlsPerDomain
        /\ \A i, j \in DOMAIN ddOutput :
            i # j => /\ ~SimilarityExceedsThreshold(ddOutput[i].title, ddOutput[j].title)
                     /\ ddOutput[i].link # ddOutput[j].link

\* a full-length input that lost a result to the domain cap
C10_Witness ==
    /\ ddPc = "done"
    /\ Len(ddInput) = MaxDedupLen
    /\ Len(ddOutput) = MaxUrlsPerDomain
    /\ \A i \in DOMAIN ddInput : ExtractDomain(ddInput[i].link) = "d1"
    /\ \A i, j \in DOMAIN ddInput :
        i # j => /\ ~SimilarityExceedsThreshold(ddInput[i].title, ddInput[j].title)
                 /\ ddInput[i].link # ddInput[j].link

\* ---- SearchService properties
Range(seq) == {seq[i] : i \in DOMAIN seq}

Unscored(result) == [link |-> result.link, title |-> result.title, snippet |-> result.snippet]

\* the results of allResults that survive filterResults and removeDuplicates
Candidates == RemoveDuplicates(FilterResults(sAll))

\* C11: the domain-authority part of every score (the score less its
\* protocol, title and snippet parts) is a single tier: 0, 20, 25 or 30 points.
C11_SingleDomainTier ==
    sPc = "done" =>
        \A i \in DOMAIN sOut :
            LET r == sOut[i]
                domainPart == r.score - 20 * ProtocolBonus(r.link)
                              - TitleBonusTwentieths(r.title) - SnippetBonusTwentieths(r.snippet)
            IN  domainPart \in {0, 20 * 20, 20 * 25, 20 * 30}

\* the result of the scoring scenario: example.edu, HTTPS, title of 40
\* characters, snippet of 100 characters
IsScenarioResult(r) ==
    /\ ExtractDomain(r.link) = ExampleEdu
    /\ r.link.scheme = Https
    /\ Len(r.title) = 40
    /\ r.snippet # NoSnippet
    /\ Len(r.snippet.text) = 100

\* C12 as stated: the scenario result is scored 65 (= 1300 twentieths).
C12_ScenarioScores65 ==
    sPc = "done" =>
        \A i \in DOMAIN sOut : IsScenarioResult(sOut[i]) => sOut[i].score = 65 * 20

\* C12 amended: the scenario result is scored 49: 30 for .edu + 10 for HTTPS
\* + 4 for the title (40 / 10) + 5 for the snippet (100 / 20).
C12_ScenarioScores49 ==
    sPc = "done" =>
        \A i \in DOMAIN sOut : IsScenarioResult(sOut[i]) => sOut[i].score = 49 * 20

C12_Witness ==
    sPc = "done" /\ \E i \in DOMAIN sOut : IsScenarioResult(sOut[i])

\* C13: what search() returns is ordered by non-increasing score, holds at most
\* maxPagesToAnalyze results, each of them a result that passed the filter and
\* the deduplication, and the cap drops only results scored no higher than
\* every result kept.
C13_RankedAndCapped ==
    sPc = "done" =>
        /\ \A i, j \in DOMAIN sOut : i < j => sOut[i].score >= sOut[j].score
        /\ Len(sOut) <= MaxPagesToAnalyze
        /\ Len(sOut) = Min(MaxPagesToAnalyze, Len(Candidates))
        /\ \A i \in DOMAIN sOut :
              /\ Unscored(sOut[i]) \in Range(Candidates)
              /\ FilterKeeps(sOut[i])
        /\ \A c \in Range(ScoreResults(Candidates)) :
              c \notin Range(sOut) => \A i \in DOMAIN sOut : sOut[i].score >= c.score

C13_Witness ==
    /\ sPc = "done"
    /\ Len(Candidates) > MaxPagesToAnalyze
    /\ Len(sOut) = MaxPagesToAnalyze
    /\ sOut[1].score > sOut[Len(sOut)].score
    /\ Unscored(sOut[1]) # Candidates[1]

\* C14: generateSearchQueries returns 1 to 4 queries: the main topic first,
\* then, of those that apply and in this order, the joined primary keywords,
\* the exact phrase (intent type question), the joined English keywords.
C14_QueryOrder ==
    sPc \in {"searching", "done"} =>
        LET primaryApplies == sKeywords.primary # NoList
            questionApplies == sAnalysis.intentType = "question"
            englishApplies == sKeywords.english # NoList /\ sKeywords.english.list # <<>>
            count(b) == IF b THEN 1 ELSE 0
            primaryAt == 2
            questionAt == 2 + count(primaryApplies)
            englishAt == 2 + count(primaryApplies) + count(questionApplies)
        IN  /\ Len(sQueries) \in 1..4
            /\ sQueries[1] = sAnalysis.mainTopic
            /\ Len(sQueries) = 1 + count(primaryApplies) + count(questionApplies) + count(englishApplies)
            /\ primaryApplies => sQueries[primaryAt] = Join(sKeywords.primary.list, <<" ">>)
            /\ questionApplies => sQueries[questionAt] = ExactPhrase(sAnalysis.mainTopic)
            /\ englishApplies => sQueries[englishAt] = Join(sKeywords.english.list, <<" ">>)

C14_Witness ==
    /\ sPc = "searching"
    /\ Len(sQueries) = 4
    /\ sQueries[2] = <<"p", " ", "q">>

\* the raw results of the queries that succeeded, in query order
RECURSIVE MergedFrom(_, _)
MergedFrom(outcomes, i) ==
    IF i > Len(outcomes) THEN <<>>
    ELSE (IF outcomes[i].ok THEN outcomes[i].organic ELSE <<>>) \o MergedFrom(outcomes, i + 1)

\* C15: search() never raises on a failed query; the raw results merged are
\* those of the queries that succeeded, in query order; every query is
\* executed whatever the earlier ones did; when all fail the result is empty.
C15_FailedQuerySkipped ==
    /\ sPc # "raised"
    /\ sAll = MergedFrom(sOutcomes, 1)
    /\ sPc = "done" =>
          /\ Len(sOutcomes) = Len(sQueries)
          /\ (\A i \in DOMAIN sOutcomes : ~sOutcomes[i].ok) => sOut = <<>>

C15_Witness ==
    /\ sPc = "done"
    /\ \E i, j \in DOMAIN sOutcomes :
          /\ i < j
          /\ ~sOutcomes[i].ok
          /\ sOutcomes[j].ok
          /\ sOutcomes[j].organic # <<>>
    /\ sOut # <<>>

\* ---- WebScraper.validateUrls properties
Probed(i) == vProbe[i] # NotProbed

CountProbes(P(_)) == Cardinality({i \in DOMAIN vProbe : Probed(i) /\ P(vProbe[i])})

IsHtml200(probe) == probe.kind = "response" /\ probe.status = 200 /\ probe.contentType = TextHtml
Is403(probe) == probe.kind = "response" /\ probe.status = 403
IsDnsFailure(probe) == probe.kind = "error" /\ probe.code = "ENOTFOUND"

\* the candidates that are well-formed and pass the blacklist test, with the
\* probe outcomes of the scenario: three 200/html, one 403, one DNS failure
IsScenarioProbes ==
    /\ Len(vUrls) = 5
    /\ \A i \in DOMAIN vProbe : Probed(i)
    /\ CountProbes(IsHtml200) = 3
    /\ CountProbes(Is403) = 1
    /\ CountProbes(IsDnsFailure) = 1

\* C16: validateUrls keeps a well-formed URL that passes the blacklist test
\* when its probe answers 2xx-3xx with an HTML, plain-text or absent content
\* type or answers 4xx, and drops it when its probe fails with a DNS failure;
\* in the scenario it returns exactly the four URLs other than the DNS failure.
C16_ValidatedSet ==
    vPc = "done" =>
        /\ \A i \in DOMAIN vUrls :
              (ValidateUrl(vUrls[i]) /\ ~IsBlacklistedDomain(vUrls[i])) =>
                  /\ ( /\ vProbe[i].kind = "response"
                       /\ vProbe[i].status \in 200..399
                       /\ vProbe[i].contentType \in {TextHtml, <<"text/plain">>, NoContentType} )
                        => vUrls[i] \in Range(vOut)
                  /\ (vProbe[i].kind = "response" /\ vProbe[i].status \in 400..499)
                        => vUrls[i] \in Range(vOut)
                  /\ IsDnsFailure(vProbe[i]) => vUrls[i] \notin Range(vOut)
        /\ IsScenarioProbes =>
              vOut = SelectSeq(vUrls, LAMBDA u : \E i \in DOMAIN vUrls :
                                          vUrls[i] = u /\ ~IsDnsFailure(vProbe[i]))

C16_Witness ==
    /\ vPc = "done"
    /\ IsScenarioProbes
    /\ Len(vOut) = 4

RECURSIVE SucceededFrom(_, _)
SucceededFrom(attempts, i) ==
    IF i > Len(attempts) THEN <<>>
    ELSE (IF attempts[i].how \in {"scraped", "cached"} THEN <<attempts[i].url>> ELSE <<>>)
         \o SucceededFrom(attempts, i + 1)

\* C18: scrapeUrls never raises; a page whose scrapeUrl raised or whose
\* content was judged invalid is not in the result; every URL within the page
\* cap is attempted, whatever happened to the pages before it.
C18_FailingPageSkipped ==
    /\ scPc # "raised"
    /\ [i \in DOMAIN scResults |-> scResults[i].url] = SucceededFrom(scAttempts, 1)
    /\ \A i \in DOMAIN scResults : IsValidContent(scResults[i])
    /\ scPc = "done" =>
          /\ Len(scAttempts) = Len(PageCap(scValid))
          /\ \A i \in DOMAIN scAttempts : scAttempts[i].url = PageCap(scValid)[i]

C18_Witness ==
    /\ scPc = "done"
    /\ Len(scValid) > MaxPagesToAnalyze
    /\ Len(scAttempts) = 2
    /\ scAttempts[1].how = "failed"
    /\ scAttempts[2].how = "scraped"
    /\ Len(scResults) = 1

\* ---- page extraction properties
\* C19: every content record scrapeUrl returns has a text of at least the
\* minimum quality length and at most the maximum length of cleaned text, and
\* cleanText never returns more characters than its truncation limit.
C19_TextLengthBounded ==
    /\ (xPc = "done" /\ xOut.kind = "content") =>
          /\ xOut.text.length >= MinQualityLength
          /\ xOut.text.length <= MaxTextLength
    /\ xPc = "done" => CleanText(xPage.text).length <= MaxTextLength

\* C20: every content record scrapeUrl returns has a text that passes the
\* quality gate, on the generic path, the large-page path and after the
\* streaming fetch.
C20_QualityGated ==
    (xPc = "done" /\ xOut.kind = "content") => IsQualityContent(xOut.text)

\* ---- retry properties, all attempts values
\* C30: retry never reports success without a successful invocation: for every
\* attempts value, 0 and negative ones included, a value retry returns is the
\* value the last call of the operation resolved with.
C30_ReturnNeedsSuccessfulCall ==
    rPc = "returned" =>
        /\ rCalls # <<>>
        /\ rCalls[Len(rCalls)].ok
        /\ rResult = rCalls[Len(rCalls)].val

\* ---- WebScraper.validateUrls and the extractor's limiter
\* the HEAD requests sent and not yet settled
ProbesInFlight == {i \in DOMAIN vProbe : vProbe[i] = Pending}

\* C23: during validateUrls the number of probes in flight at the same time
\* never exceeds maxConcurrent of the scraper's limiter.
C23_ProbesWithinMaxConcurrent == Cardinality(ProbesInFlight) <= MaxConcurrent

\* ---- scrapeUrl: fetch paths, requests and the streaming cap
\* C21: on every fetch path, the normal one and the streaming fallback, the
\* body of a response whose content type is not HTML is never handed to
\* extractContent, and no content record is returned for it.
C21_NonHtmlNeverParsed ==
    /\ xParsed => xPage.contentType = TextHtml
    /\ (xPc = "done" /\ xOut.kind = "content") => xPage.contentType = TextHtml

\* scrapeUrl rejected the page for what the page is (its status, its content
\* type, the size of its body, the quality of its text), not for a timeout
\* or a broken connection
ContentRejected ==
    /\ xPc = "done"
    /\ xOut.kind = "error"
    /\ xPage.fetch \in {"ok", "flaky", "badStatus", "tooLarge"}
    /\ xSettledBy \in {"normal", "overflow", "end"}

\* C25: a page rejected for a content reason was requested once, plus once
\* more for each request that failed with a transient network failure.
C25_ContentRejectionNotRetried == ContentRejected => xRequests = 1 + xTransient

\* the body collected stays within the cap; the chunk that takes totalSize
\* over the cap is not appended and the stream is destroyed; nothing is
\* appended to the body of a destroyed stream
BodyWithinCap ==
    /\ [](xStream.htmlContent <= StreamingMaxSize)
    /\ [][(xStream.totalSize <= StreamingMaxSize /\ xStream'.totalSize > StreamingMaxSize)
            => (xStream'.htmlContent = xStream.htmlContent /\ xStream'.state = "destroyed")]_vars
    /\ [][xStream.state = "destroyed"
            => (xStream'.htmlContent = xStream.htmlContent /\ xStream'.state = "destroyed")]_vars

\* a settled fetch keeps the outcome it settled with
SettlesOnce ==
    [][xPc = "done" => (xPc' = "done" /\ xOut' = xOut /\ xSettledBy' = xSettledBy)]_vars

\* C26 as stated: the body never exceeds the streaming cap, and once the cap
\* has been crossed the fetch has settled, once, with the extraction of the
\* partial body or with its extraction error.
C26_CapCrossingSettlesWithExtraction ==
    /\ BodyWithinCap
    /\ SettlesOnce
    /\ [](xStream.state = "destroyed" =>
            /\ xPc = "done"
            /\ xSettledBy = "overflow"
            /\ xOut = ExtractContent(xStream.htmlContent, xPage.text))

\* C26, amended: the same, except that a fetch the streaming timer had
\* already rejected stays rejected when the cap is crossed later.
C26_CapCrossingSettlesUnlessTimedOut ==
    /\ BodyWithinCap
    /\ SettlesOnce
    /\ [](xStream.state = "destroyed" =>
            /\ xPc = "done"
            /\ \/ /\ xSettledBy = "overflow"
                  /\ xStream.timeout = "cleared"
                  /\ xOut = ExtractContent(xStream.htmlContent, xPage.text)
               \/ /\ xSettledBy = "timeout"
                  /\ xStream.timeout = "fired"
                  /\ xOut = ExtractionError)

\* the second chunk filled the body to the cap, the third crossed it
C26_Witness ==
    /\ xStream.state = "destroyed"
    /\ xStream.htmlContent = StreamingMaxSize
    /\ xStream.totalSize = 2 * LargePageThreshold
    /\ xSettledBy = "overflow"
    /\ xOut.kind = "content"

\* ---- the fetch stage of processQuery: validateUrls, then scrapeUrls
\* s can be got from t by leaving elements out
RECURSIVE IsSubsequence(_, _)
IsSubsequence(s, t) ==
    IF s = <<>> THEN TRUE
    ELSE IF t = <<>> THEN FALSE
    ELSE IF Head(s) = Head(t) THEN IsSubsequence(Tail(s), Tail(t))
    ELSE IsSubsequence(s, Tail(t))

RecordUrls(records) == [i \in DOMAIN records |-> records[i].url]

\* C24: the list validateUrls returns is an order-preserving subsequence of
\* its input, and the URLs of the records scrapeUrls has collected are an
\* order-preserving subsequence of its input, whichever order the probes settle
\* in and whichever pages fail.
C24_OrderPreservingSubsequence ==
    /\ vPc = "done" => IsSubsequence(vOut, vUrls)
    /\ IsSubsequence(RecordUrls(scResults), scUrls)
    /\ scPc \in {"loop", "done"} => IsSubsequence(scValid, scUrls)

\* of three URLs given to scrapeUrls the second was dropped by its
\* validation, the first and the third gave records
C24_Witness ==
    /\ scPc = "done"
    /\ Len(scUrls) = 3
    /\ RecordUrls(scResults) = <<scUrls[1], scUrls[3]>>

\* C29: within the fetch stage of one processQuery run no URL is sent more
\* than one HEAD request.
C29_OneProbePerUrl ==
    \A i, j \in DOMAIN vHeads : vHeads[i] = vHeads[j] => i = j

\* ---- processQuery: fallback, stage order, cache writes
\* the search gave results, scraping gave no record, and no result has a snippet
NothingUsable ==
    /\ pSearchN > 0
    /\ pSnippetN = 0
    /\ pScrapedN = 0
    /\ pFailed # "scrape"
    /\ \E i \in DOMAIN pTrace : pTrace[i] = "scrape"

IsFailureResult(result) ==
    result.confidence = 0 \/ "error" \in DOMAIN result.metadata

\* C22: when the search returned results but scraping gave no content record
\* and no search result has a non-empty snippet, processQuery returns the
\* failure result: empty sources, confidence 0, an error in the metadata.
C22_NothingUsableFails ==
    (pc = "done" /\ NothingUsable) =>
        /\ pOut.kind = "returned"
        /\ pOut.result.sources = <<>>
        /\ pOut.result.confidence = 0
        /\ "error" \in DOMAIN pOut.result.metadata

\* the stages in program order, as recorded in pTrace and as values of pc
StageOrder ==
    <<"cacheGet", "analyze", "keywords", "buildQueries", "search", "validate",
      "scrape", "summarize", "synthesize", "cacheSet">>

PcOrder ==
    <<"cacheCheck", "analyze", "keywords", "buildQueries", "search", "validate",
      "scrape", "summarize", "synthesize", "cacheWrite">>

IsPrefix(s, t) == Len(s) <= Len(t) /\ \A i \in DOMAIN s : s[i] = t[i]

\* C27: the cache lookup comes first; a hit is returned with no stage run; on a
\* miss the stages run in program order, each one starting when all the stages
\* before it have completed, and a run that returns a new result has gone
\* through all of them, the cache write last.
C27_StagesInOrder ==
    /\ IsPrefix(pTrace, StageOrder)
    /\ pc \in Range(PcOrder) => pc = PcOrder[Len(pTrace) + 1]
    /\ (pc = "done" /\ cLast.op = "get" /\ cLast.ret # Null) =>
          /\ pTrace = <<"cacheGet">>
          /\ pOut = [kind |-> "returned", result |-> cLast.ret]
    /\ (pc = "done" /\ pTrace = <<"cacheGet">>) =>
          /\ cLast.op = "get"
          /\ cLast.ret # Null
    /\ (pc = "done" /\ pFailed = "none" /\ Len(pTrace) > 1) => pTrace = StageOrder

\* a query answered from the cache
C27_Witness ==
    /\ pc = "done"
    /\ pTrace = <<"cacheGet">>
    /\ pOut.kind = "returned"
    /\ pOut.result.confidence = 3

\* C28: the cache is written only by the cache-write step, after synthesis has
\* succeeded; no entry of the cache is a failure result; a query whose run
\* failed is not in the cache afterwards, so that repeating it runs the pipeline.
C28_FailuresNeverCached ==
    /\ [](\A k \in DOMAIN cData : ~IsFailureResult(cData[k].v))
    /\ []((pc = "done" /\ pFailed # "none") => CacheGetResult(pQuery) = Null)
    /\ [][cData' # cData =>
            /\ pc = "cacheWrite"
            /\ pTrace[Len(pTrace)] = "synthesize"
            /\ ~IsFailureResult(pBuilt)
            /\ pFailed' = "none"]_vars

\* a run failed while the cache holds the result of an earlier one
C28_Witness ==
    /\ pc = "done"
    /\ pFailed = "synthesize"
    /\ IsFailureResult(pOut.result)
    /\ cData # <<>>

====
